---- MODULE Spec2Model ----
(***************************************************************************)
(* A model of the message normaliser: the hybrid classifier                *)
(* (services/classification_service.py), the contact extractor             *)
(* (services/contact_service.py), the entity extractor                     *)
(* (services/entity_service.py), the enrichment engine with its           *)
(* emergency-number cache (services/enrichment_service.py) and the         *)
(* request pipeline of POST /normalize (main.py, models/schemas.py).       *)
(*                                                                         *)
(* Conventions.                                                            *)
(*  - A text is a sequence of words; the modelled string is the words      *)
(*    joined by single spaces.  Python's `keyword in text_lower` is a      *)
(*    character-level substring test: on words it is the containment of    *)
(*    the keyword's word sequence, where the first word may match as a     *)
(*    suffix and the last as a prefix of a text word (tables below).       *)
(*  - A confidence is an integer number of hundredths (0.6 is 60).  The    *)
(*    float sums of the rule engine (0.6 + 0.1*h, 0.5 + 0.1*u) evaluate    *)
(*    in IEEE doubles to exactly the literals 0.7, 0.8, 0.9 and 0.6, 0.7,  *)
(*    0.8, so the comparison `> 0.6` is the comparison `> 60` here.        *)
(*  - Each service has its own specification (SpecClassify, SpecCombine,   *)
(*    SpecContact, SpecNamePatterns, SpecEntities, SpecCache, SpecEnrich,  *)
(*    SpecPipeline);                                                       *)
(*    the variables of the other services stay at their initial value.     *)
(*    SpecServices runs the services that call external systems together.  *)
(***************************************************************************)
EXTENDS Integers, Sequences, FiniteSets, TLC

VARIABLES cls, con, ent, emergency_cache, thr, api_calls, enr, req

vars == <<cls, con, ent, emergency_cache, thr, api_calls, enr, req>>

(***************************************************************************)
(* Bounds of the model.                                                    *)
(***************************************************************************)
MaxTextLen == 3

(***************************************************************************)
(* Words and texts of the classifier.                                      *)
(***************************************************************************)
ClsVocabulary ==
    {"medical", "emergency", "Stolen", "thefts", "urgent:", "today",
     "flight", "in", "3", "hours", "h", "hello"}

\* Longer texts with three and four HIGH_RISK keywords (and one urgent one).
ClsLongTexts ==
    {<<"Stolen", "thefts", "medical", "emergency">>,
     <<"Stolen", "thefts", "medical", "emergency", "police">>}

ClsTexts == UNION {[1..n -> ClsVocabulary] : n \in 1..MaxTextLen} \cup ClsLongTexts

\* str.lower() on one word.
Lower(w) ==
    CASE w = "Stolen" -> "stolen"
      [] OTHER -> w

\* text.lower(): the text is lowered word by word.
LowerText(text) == [i \in 1..Len(text) |-> Lower(text[i])]

\* The words that occur as a character substring of the word w.
SubstringsOf(w) ==
    CASE w = "thefts" -> {"thefts", "theft"}
      [] w = "urgent:" -> {"urgent:", "urgent"}
      [] w = "hours" -> {"hours", "hour"}
      [] w = "helpful" -> {"helpful", "help"}
      [] w = "delayed" -> {"delayed", "delay"}
      [] OTHER -> {w}

\* The words that are a character prefix of the word w.
PrefixesOf(w) ==
    CASE w = "thefts" -> {"thefts", "theft"}
      [] w = "urgent:" -> {"urgent:", "urgent"}
      [] w = "hours" -> {"hours", "hour"}
      [] w = "helpful" -> {"helpful", "help"}
      [] w = "delayed" -> {"delayed", "delay"}
      [] OTHER -> {w}

\* The words that are a character suffix of the word w.
SuffixesOf(w) == {w}

\* `keyword in text_lower` with the keyword starting at word i of the text.
KeywordAt(kw, tl, i) ==
    /\ i + Len(kw) - 1 <= Len(tl)
    /\ \A j \in 1..Len(kw) :
          LET w == tl[i + j - 1]
          IN  IF Len(kw) = 1 THEN kw[j] \in SubstringsOf(w)
              ELSE IF j = 1 THEN kw[j] \in SuffixesOf(w)
              ELSE IF j = Len(kw) THEN kw[j] \in PrefixesOf(w)
              ELSE kw[j] = w

\* `keyword in text_lower`.
KeywordIn(kw, tl) == \E i \in 1..Len(tl) : KeywordAt(kw, tl, i)

high_risk_keywords ==
    << <<"lost", "passport">>, <<"stolen">>, <<"hospital">>, <<"police">>,
       <<"arrested">>, <<"scam">>, <<"credit", "card", "stolen">>,
       <<"medical", "emergency">>, <<"kidnapped">>, <<"visa", "denied">>,
       <<"robbery">>, <<"assault">>, <<"accident">>, <<"injured">>,
       <<"fraud">>, <<"theft">>, <<"embassy">>, <<"consulate">>,
       <<"detained">>, <<"lost", "documents">>, <<"stranded">> >>

urgent_keywords ==
    << <<"today">>, <<"tonight">>, <<"tomorrow">>, <<"in", "two", "hours">>,
       <<"asap">>, <<"immediately">>, <<"first", "thing">>, <<"urgent">>,
       <<"emergency">>, <<"right", "now">>, <<"within", "hours">>,
       <<"this", "morning">>, <<"this", "afternoon">>, <<"flight", "in">>,
       <<"leaving", "soon">>, <<"check", "out">>, <<"missed", "flight">>,
       <<"cancelled">>, <<"delayed">> >>

\* sum(1 for keyword in keywords if keyword in text_lower)
CountKeywords(keywords, tl) ==
    Cardinality({k \in 1..Len(keywords) : KeywordIn(keywords[k], tl)})

(***************************************************************************)
(* The four time-window patterns, on words.  \b is a word boundary: a      *)
(* pattern word must be a whole word of the text ("hours" is no match of   *)
(* (hour|hr|h)\b).                                                         *)
(***************************************************************************)
\* \d+ as a whole word.
IsNumber(w) == w \in {"2", "3"}

\* \d+(hour|hr|h)\b in one word, as in "3h".
IsNumberHour(w) == w \in {"3h", "3hr", "3hour"}

\* \d+(hour|day|hr|h)\b in one word.
IsNumberHourDay(w) == w \in {"3h", "3hr", "3hour", "3day"}

\* r'\bin \d+\s*(hour|hr|h)\b'
TimePatternIn(tl) ==
    \E i \in 1..Len(tl) :
        /\ tl[i] = "in"
        /\ i + 1 <= Len(tl)
        /\ \/ IsNumberHour(tl[i + 1])
           \/ /\ IsNumber(tl[i + 1])
              /\ i + 2 <= Len(tl)
              /\ tl[i + 2] \in {"hour", "hr", "h"}

\* r'\bwithin \d+\s*(hour|day|hr|h)\b'
TimePatternWithin(tl) ==
    \E i \in 1..Len(tl) :
        /\ tl[i] = "within"
        /\ i + 1 <= Len(tl)
        /\ \/ IsNumberHourDay(tl[i + 1])
           \/ /\ IsNumber(tl[i + 1])
              /\ i + 2 <= Len(tl)
              /\ tl[i + 2] \in {"hour", "day", "hr", "h"}

\* r'\b(this|tonight|today|tomorrow)\b'
TimePatternWord(tl) ==
    \E i \in 1..Len(tl) : tl[i] \in {"this", "tonight", "today", "tomorrow"}

\* r'\bflight\s*(in|at|leaves)\b'
TimePatternFlight(tl) ==
    \E i \in 1..Len(tl) :
        \/ tl[i] \in {"flightin", "flightat", "flightleaves"}
        \/ /\ tl[i] = "flight"
           /\ i + 1 <= Len(tl)
           /\ tl[i + 1] \in {"in", "at", "leaves"}

\* sum(1 for pattern in time_patterns if re.search(pattern, text_lower))
CountTimePatterns(tl) ==
    (IF TimePatternIn(tl) THEN 1 ELSE 0) + (IF TimePatternWithin(tl) THEN 1 ELSE 0)
    + (IF TimePatternWord(tl) THEN 1 ELSE 0) + (IF TimePatternFlight(tl) THEN 1 ELSE 0)

Min(a, b) == IF a <= b THEN a ELSE b

Max(a, b) == IF b > a THEN b ELSE a

(***************************************************************************)
(* MessageCategory and the votes.                                          *)
(***************************************************************************)
HIGH_RISK == "high_risk"

URGENT == "urgent"

BASE == "base"

MessageCategory == {HIGH_RISK, URGENT, BASE}

\* The rule engine with the urgent indicators added to the HIGH_RISK score.
classify_with_rules_additive(text) ==
    LET text_lower == LowerText(text)
        high_risk_matches == CountKeywords(high_risk_keywords, text_lower)
        urgent_matches == CountKeywords(urgent_keywords, text_lower)
        time_matches == CountTimePatterns(text_lower)
        total_urgent_score == urgent_matches + time_matches
    IN  IF high_risk_matches > 0
        THEN [category |-> HIGH_RISK,
              confidence |-> Min(90, 60 + (high_risk_matches + total_urgent_score) * 10)]
        ELSE IF total_urgent_score > 0
        THEN [category |-> URGENT,
              confidence |-> Min(80, 50 + total_urgent_score * 10)]
        ELSE [category |-> BASE, confidence |-> 70]

\* _classify_with_rules: the rule engine's vote (category, confidence).
classify_with_rules(text) ==
    LET text_lower == LowerText(text)
        high_risk_matches == CountKeywords(high_risk_keywords, text_lower)
        urgent_matches == CountKeywords(urgent_keywords, text_lower)
        time_matches == CountTimePatterns(text_lower)
        total_urgent_score == urgent_matches + time_matches
    IN  IF high_risk_matches > 0
        THEN [category |-> HIGH_RISK,
              confidence |-> Min(90, 60 + high_risk_matches * 10)]
        ELSE IF total_urgent_score > 0
        THEN [category |-> URGENT,
              confidence |-> Min(80, 50 + total_urgent_score * 10)]
        ELSE [category |-> BASE, confidence |-> 70]

\* The outcomes of _classify_with_llm: a vote, or one of the ways the call,
\* json.loads, MessageCategory(...) or float(...) raises.
LlmFailureKinds == {"exception", "timeout", "non_json", "invalid_category"}

\* The confidences the external service is modelled to answer (float(...)
\* accepts any number, also one outside [0, 1]).
LlmConfidences == {-10, 55, 60, 61, 75, 95, 150}

LlmFailure(k) == [kind |-> k, category |-> BASE, confidence |-> 0, reasoning |-> ""]

LlmOutcomes ==
    {LlmFailure(k) : k \in LlmFailureKinds}
    \cup [kind : {"ok"}, category : MessageCategory,
          confidence : LlmConfidences, reasoning : {"r"}]

\* A mutant of the merge: the check for HIGH_RISK is missing.
combine_without_priority(llm_result, rule_result) ==
    LET llm_category == llm_result.category
        llm_confidence == llm_result.confidence
        llm_reasoning == llm_result.reasoning
        rule_category == rule_result.category
        rule_confidence == rule_result.confidence
    IN  IF llm_category = rule_category
        THEN [category |-> llm_category,
              confidence |-> Max(llm_confidence, rule_confidence),
              reasoning |-> <<"LLM + Rules agree: ", llm_reasoning>>]
        ELSE IF llm_category = URGENT /\ rule_category = BASE
        THEN IF llm_confidence > 60
             THEN [category |-> URGENT, confidence |-> llm_confidence,
                   reasoning |-> <<"LLM detected urgency: ", llm_reasoning>>]
             ELSE [category |-> BASE, confidence |-> 60,
                   reasoning |-> <<"Low confidence urgency, defaulting to base", "">>]
        ELSE IF rule_category = URGENT /\ llm_category = BASE
        THEN IF rule_confidence > 60
             THEN [category |-> URGENT, confidence |-> rule_confidence,
                   reasoning |-> <<"Rules detected time-sensitive urgency", "">>]
             ELSE [category |-> BASE, confidence |-> 60,
                   reasoning |-> <<"Low confidence urgency, defaulting to base", "">>]
        ELSE IF llm_confidence > rule_confidence
        THEN [category |-> llm_category, confidence |-> llm_confidence,
              reasoning |-> <<"LLM higher confidence: ", llm_reasoning>>]
        ELSE [category |-> rule_category, confidence |-> rule_confidence,
              reasoning |-> <<"Rules higher confidence", "">>]

\* A mutant of the merge: the urgency threshold is >= 0.6 instead of > 0.6.
combine_threshold_inclusive(llm_result, rule_result) ==
    LET llm_category == llm_result.category
        llm_confidence == llm_result.confidence
        llm_reasoning == llm_result.reasoning
        rule_category == rule_result.category
        rule_confidence == rule_result.confidence
    IN  IF llm_category = rule_category
        THEN [category |-> llm_category,
              confidence |-> Max(llm_confidence, rule_confidence),
              reasoning |-> <<"LLM + Rules agree: ", llm_reasoning>>]
        ELSE IF rule_category = HIGH_RISK \/ llm_category = HIGH_RISK
        THEN IF rule_category = HIGH_RISK
             THEN [category |-> HIGH_RISK, confidence |-> rule_confidence,
                   reasoning |-> <<"Rules detected high-risk (overrides LLM)", "">>]
             ELSE [category |-> HIGH_RISK, confidence |-> llm_confidence,
                   reasoning |-> <<"LLM detected high-risk: ", llm_reasoning>>]
        ELSE IF llm_category = URGENT /\ rule_category = BASE
        THEN IF llm_confidence >= 60
             THEN [category |-> URGENT, confidence |-> llm_confidence,
                   reasoning |-> <<"LLM detected urgency: ", llm_reasoning>>]
             ELSE [category |-> BASE, confidence |-> 60,
                   reasoning |-> <<"Low confidence urgency, defaulting to base", "">>]
        ELSE IF rule_category = URGENT /\ llm_category = BASE
        THEN IF rule_confidence >= 60
             THEN [category |-> URGENT, confidence |-> rule_confidence,
                   reasoning |-> <<"Rules detected time-sensitive urgency", "">>]
             ELSE [category |-> BASE, confidence |-> 60,
                   reasoning |-> <<"Low confidence urgency, defaulting to base", "">>]
        ELSE IF llm_confidence > rule_confidence
        THEN [category |-> llm_category, confidence |-> llm_confidence,
              reasoning |-> <<"LLM higher confidence: ", llm_reasoning>>]
        ELSE [category |-> rule_category, confidence |-> rule_confidence,
              reasoning |-> <<"Rules higher confidence", "">>]

\* A mutant of the merge: a HIGH_RISK result takes the higher confidence.
combine_high_risk_max(llm_result, rule_result) ==
    LET llm_category == llm_result.category
        llm_confidence == llm_result.confidence
        llm_reasoning == llm_result.reasoning
        rule_category == rule_result.category
        rule_confidence == rule_result.confidence
    IN  IF llm_category = rule_category
        THEN [category |-> llm_category,
              confidence |-> Max(llm_confidence, rule_confidence),
              reasoning |-> <<"LLM + Rules agree: ", llm_reasoning>>]
        ELSE IF rule_category = HIGH_RISK \/ llm_category = HIGH_RISK
        THEN [category |-> HIGH_RISK,
              confidence |-> Max(llm_confidence, rule_confidence),
              reasoning |-> <<"Rules detected high-risk (overrides LLM)", "">>]
        ELSE IF llm_category = URGENT /\ rule_category = BASE
        THEN IF llm_confidence > 60
             THEN [category |-> URGENT, confidence |-> llm_confidence,
                   reasoning |-> <<"LLM detected urgency: ", llm_reasoning>>]
             ELSE [category |-> BASE, confidence |-> 60,
                   reasoning |-> <<"Low confidence urgency, defaulting to base", "">>]
        ELSE IF rule_category = URGENT /\ llm_category = BASE
        THEN IF rule_confidence > 60
             THEN [category |-> URGENT, confidence |-> rule_confidence,
                   reasoning |-> <<"Rules detected time-sensitive urgency", "">>]
             ELSE [category |-> BASE, confidence |-> 60,
                   reasoning |-> <<"Low confidence urgency, defaulting to base", "">>]
        ELSE IF llm_confidence > rule_confidence
        THEN [category |-> llm_category, confidence |-> llm_confidence,
              reasoning |-> <<"LLM higher confidence: ", llm_reasoning>>]
        ELSE [category |-> rule_category, confidence |-> rule_confidence,
              reasoning |-> <<"Rules higher confidence", "">>]

\* A mutant of the merge: on agreement the external confidence is taken.
combine_agree_llm(llm_result, rule_result) ==
    LET llm_category == llm_result.category
        llm_confidence == llm_result.confidence
        llm_reasoning == llm_result.reasoning
        rule_category == rule_result.category
        rule_confidence == rule_result.confidence
    IN  IF llm_category = rule_category
        THEN [category |-> llm_category,
              confidence |-> llm_confidence,
              reasoning |-> <<"LLM + Rules agree: ", llm_reasoning>>]
        ELSE IF rule_category = HIGH_RISK \/ llm_category = HIGH_RISK
        THEN IF rule_category = HIGH_RISK
             THEN [category |-> HIGH_RISK, confidence |-> rule_confidence,
                   reasoning |-> <<"Rules detected high-risk (overrides LLM)", "">>]
             ELSE [category |-> HIGH_RISK, confidence |-> llm_confidence,
                   reasoning |-> <<"LLM detected high-risk: ", llm_reasoning>>]
        ELSE IF llm_category = URGENT /\ rule_category = BASE
        THEN IF llm_confidence > 60
             THEN [category |-> URGENT, confidence |-> llm_confidence,
                   reasoning |-> <<"LLM detected urgency: ", llm_reasoning>>]
             ELSE [category |-> BASE, confidence |-> 60,
                   reasoning |-> <<"Low confidence urgency, defaulting to base", "">>]
        ELSE IF rule_category = URGENT /\ llm_category = BASE
        THEN IF rule_confidence > 60
             THEN [category |-> URGENT, confidence |-> rule_confidence,
                   reasoning |-> <<"Rules detected time-sensitive urgency", "">>]
             ELSE [category |-> BASE, confidence |-> 60,
                   reasoning |-> <<"Low confidence urgency, defaulting to base", "">>]
        ELSE IF llm_confidence > rule_confidence
        THEN [category |-> llm_category, confidence |-> llm_confidence,
              reasoning |-> <<"LLM higher confidence: ", llm_reasoning>>]
        ELSE [category |-> rule_category, confidence |-> rule_confidence,
              reasoning |-> <<"Rules higher confidence", "">>]

\* A mutant of the merge: the branch for a rule vote URGENT against an
\* external vote BASE is missing.
combine_one_sided(llm_result, rule_result) ==
    LET llm_category == llm_result.category
        llm_confidence == llm_result.confidence
        llm_reasoning == llm_result.reasoning
        rule_category == rule_result.category
        rule_confidence == rule_result.confidence
    IN  IF llm_category = rule_category
        THEN [category |-> llm_category,
              confidence |-> Max(llm_confidence, rule_confidence),
              reasoning |-> <<"LLM + Rules agree: ", llm_reasoning>>]
        ELSE IF rule_category = HIGH_RISK \/ llm_category = HIGH_RISK
        THEN IF rule_category = HIGH_RISK
             THEN [category |-> HIGH_RISK, confidence |-> rule_confidence,
                   reasoning |-> <<"Rules detected high-risk (overrides LLM)", "">>]
             ELSE [category |-> HIGH_RISK, confidence |-> llm_confidence,
                   reasoning |-> <<"LLM detected high-risk: ", llm_reasoning>>]
        ELSE IF llm_category = URGENT /\ rule_category = BASE
        THEN IF llm_confidence > 60
             THEN [category |-> URGENT, confidence |-> llm_confidence,
                   reasoning |-> <<"LLM detected urgency: ", llm_reasoning>>]
             ELSE [category |-> BASE, confidence |-> 60,
                   reasoning |-> <<"Low confidence urgency, defaulting to base", "">>]
        ELSE IF llm_confidence > rule_confidence
        THEN [category |-> llm_category, confidence |-> llm_confidence,
              reasoning |-> <<"LLM higher confidence: ", llm_reasoning>>]
        ELSE [category |-> rule_category, confidence |-> rule_confidence,
              reasoning |-> <<"Rules higher confidence", "">>]

\* _combine_classifications: the merge of the external vote and the rule
\* vote.  A reasoning is the pair of the fixed text and the external
\* reasoning formatted into it.
combine_classifications(llm_result, rule_result) ==
    LET llm_category == llm_result.category
        llm_confidence == llm_result.confidence
        llm_reasoning == llm_result.reasoning
        rule_category == rule_result.category
        rule_confidence == rule_result.confidence
    IN  IF llm_category = rule_category
        THEN [category |-> llm_category,
              confidence |-> Max(llm_confidence, rule_confidence),
              reasoning |-> <<"LLM + Rules agree: ", llm_reasoning>>]
        ELSE IF rule_category = HIGH_RISK \/ llm_category = HIGH_RISK
        THEN IF rule_category = HIGH_RISK
             THEN [category |-> HIGH_RISK, confidence |-> rule_confidence,
                   reasoning |-> <<"Rules detected high-risk (overrides LLM)", "">>]
             ELSE [category |-> HIGH_RISK, confidence |-> llm_confidence,
                   reasoning |-> <<"LLM detected high-risk: ", llm_reasoning>>]
        ELSE IF llm_category = URGENT /\ rule_category = BASE
        THEN IF llm_confidence > 60
             THEN [category |-> URGENT, confidence |-> llm_confidence,
                   reasoning |-> <<"LLM detected urgency: ", llm_reasoning>>]
             ELSE [category |-> BASE, confidence |-> 60,
                   reasoning |-> <<"Low confidence urgency, defaulting to base", "">>]
        ELSE IF rule_category = URGENT /\ llm_category = BASE
        THEN IF rule_confidence > 60
             THEN [category |-> URGENT, confidence |-> rule_confidence,
                   reasoning |-> <<"Rules detected time-sensitive urgency", "">>]
             ELSE [category |-> BASE, confidence |-> 60,
                   reasoning |-> <<"Low confidence urgency, defaulting to base", "">>]
        ELSE IF llm_confidence > rule_confidence
        THEN [category |-> llm_category, confidence |-> llm_confidence,
              reasoning |-> <<"LLM higher confidence: ", llm_reasoning>>]
        ELSE [category |-> rule_category, confidence |-> rule_confidence,
              reasoning |-> <<"Rules higher confidence", "">>]

\* A mutant of the constraint of the confidence: every value is accepted.
ValidConfidenceAny(c) == TRUE

\* ClassificationResult's validation of confidence: Field(ge=0.0, le=1.0).
ValidConfidence(c) == c >= 0 /\ c <= 100

FallbackReasoning == <<"Fallback to rule-based classification due to LLM error", "">>

NoReasoning == <<"", "">>

\* A mutant of classify_message: the except branch answers BASE at 0.5
\* instead of the vote of the rule engine.
classify_message_default_fallback(llm, rule_result) ==
    LET merged == combine_classifications(llm, rule_result)
    IN  IF llm.kind = "ok" /\ ValidConfidence(merged.confidence)
        THEN [raised |-> FALSE, category |-> merged.category,
              confidence |-> merged.confidence, reasoning |-> merged.reasoning]
        ELSE [raised |-> FALSE, category |-> BASE, confidence |-> 50,
              reasoning |-> FallbackReasoning]

\* classify_message, given the outcome llm of _classify_with_llm(text) and
\* the vote rule_result of _classify_with_rules(text).  The try block
\* raises when _classify_with_llm raises or when ClassificationResult
\* rejects the merged confidence; the except branch builds a
\* ClassificationResult from the rule vote, and an exception of that
\* construction leaves the function.
classify_message(llm, rule_result) ==
    LET merged == combine_classifications(llm, rule_result)
    IN  IF llm.kind = "ok" /\ ValidConfidence(merged.confidence)
        THEN [raised |-> FALSE, category |-> merged.category,
              confidence |-> merged.confidence, reasoning |-> merged.reasoning]
        ELSE IF ValidConfidence(rule_result.confidence)
        THEN [raised |-> FALSE, category |-> rule_result.category,
              confidence |-> rule_result.confidence, reasoning |-> FallbackReasoning]
        ELSE [raised |-> TRUE, category |-> BASE, confidence |-> 0,
              reasoning |-> NoReasoning]

(***************************************************************************)
(* The classifier as a state machine.  classify_message calls the external *)
(* service (ClassifyMessageCall) and goes on when the call returns or      *)
(* raises (ClassifyMessageFinish).  cls records the call: the text, the    *)
(* outcome of the external call, the vote of the rule engine (a function   *)
(* of the text alone, which the code computes after the external call),    *)
(* the merged vote and the result.                                         *)
(***************************************************************************)
\* The try block of classify_message raises: _classify_with_llm raises, or
\* ClassificationResult rejects the merged confidence.
try_block_raises(llm, rule_result) ==
    ~(/\ llm.kind = "ok"
      /\ ValidConfidence(combine_classifications(llm, rule_result).confidence))

ClsIdle ==
    [pc |-> "idle", text |-> <<>>, llm |-> LlmFailure("exception"),
     llm_calls |-> 0, fallback_runs |-> 0,
     rule |-> [category |-> BASE, confidence |-> 70],
     merged |-> [category |-> BASE, confidence |-> 0, reasoning |-> NoReasoning],
     result |-> [raised |-> FALSE, category |-> BASE, confidence |-> 0,
                 reasoning |-> NoReasoning]]

\* classification_service.classify_message(message.text), up to the call
\* of the external service in _classify_with_llm.
ClassifyMessageCall ==
    /\ cls.pc = "idle"
    /\ \E text \in ClsTexts :
          cls' = [cls EXCEPT !.pc = "llm", !.text = text,
                             !.llm_calls = @ + 1,
                             !.rule = classify_with_rules(text)]
    /\ UNCHANGED <<con, ent, emergency_cache, thr, api_calls, enr, req>>

\* classify_message from the outcome of _classify_with_llm on.
ClassifyMessageFinish ==
    /\ cls.pc = "llm"
    /\ \E llm \in LlmOutcomes :
          cls' = [cls EXCEPT !.pc = "done", !.llm = llm,
                             !.fallback_runs =
                                 IF try_block_raises(llm, cls.rule) THEN @ + 1 ELSE @,
                             !.merged = combine_classifications(llm, cls.rule),
                             !.result = classify_message(llm, cls.rule)]
    /\ UNCHANGED <<con, ent, emergency_cache, thr, api_calls, enr, req>>

\* The result is handed to the caller; the service keeps nothing of it.
ClassifyReturn ==
    /\ cls.pc = "done"
    /\ cls' = ClsIdle
    /\ UNCHANGED <<con, ent, emergency_cache, thr, api_calls, enr, req>>

NextClassify ==
    \/ ClassifyMessageCall
    \/ ClassifyMessageFinish
    \/ ClassifyReturn

(***************************************************************************)
(* _combine_classifications on its own: the merge applied to any pair of   *)
(* votes, the rule vote not being limited to what the rule engine yields.  *)
(***************************************************************************)
\* The votes (category, confidence) handed to the merge.
Votes == [category : MessageCategory, confidence : LlmConfidences]

\* _combine_classifications(llm_result, rule_result) is applied.
CombineVotes ==
    /\ cls.pc = "idle"
    /\ \E llm_vote \in Votes, rule_result \in Votes :
          LET llm_result == [kind |-> "ok", category |-> llm_vote.category,
                             confidence |-> llm_vote.confidence, reasoning |-> "r"]
          IN  cls' = [cls EXCEPT !.pc = "merged", !.llm = llm_result,
                                 !.rule = rule_result,
                                 !.merged = combine_classifications(llm_result,
                                                                    rule_result)]
    /\ UNCHANGED <<con, ent, emergency_cache, thr, api_calls, enr, req>>

\* The merged vote is handed back.
CombineReturn ==
    /\ cls.pc = "merged"
    /\ cls' = ClsIdle
    /\ UNCHANGED <<con, ent, emergency_cache, thr, api_calls, enr, req>>

NextCombine ==
    \/ CombineVotes
    \/ CombineReturn

(***************************************************************************)
(* The contact extractor.  Python's None is NoneVal; a value is "empty"   *)
(* (falsy) when it is None or the empty string.  What the regular          *)
(* expressions, the NER capability and the phone library find in the text  *)
(* is the input of the model; what the code does with the matches is       *)
(* modelled.                                                               *)
(***************************************************************************)
NoneVal == "<None>"

Truthy(v) == v # NoneVal /\ v # ""

\* str.lower() / str.upper() on the matches of the model.
LowerStr(v) ==
    CASE v = "Bob@X.com" -> "bob@x.com"
      [] OTHER -> v

UpperStr(v) ==
    CASE v = "k1a 0b1" -> "K1A 0B1"
      [] v = "sw1a 1aa" -> "SW1A 1AA"
      [] OTHER -> v

\* _extract_email: m is email_re.search(text), the matched string or None.
extract_email(m) == IF m = NoneVal THEN NoneVal ELSE LowerStr(m)

RECURSIVE Join(_)
\* "".join(seq) for a sequence of one-character strings.
Join(seq) == IF seq = <<>> THEN "" ELSE Head(seq) \o Join(Tail(seq))

\* f"{seq[:3]}-{seq[3:6]}-{seq[6:]}" for a sequence of ten digits.
FormatPhone(seq) ==
    Join(SubSeq(seq, 1, 3)) \o "-" \o Join(SubSeq(seq, 4, 6)) \o "-"
    \o Join(SubSeq(seq, 7, Len(seq)))

\* re.search(r"(\d{10})(?!\d)", digits) on a string of digits only: the
\* leftmost position from which ten digits follow and no eleventh does.
\* 0 when there is none.
SearchTenDigits(digits) ==
    LET starts == {i \in 1..Len(digits) :
                      i + 9 <= Len(digits) /\ ~(i + 10 <= Len(digits))}
    IN  IF starts = {} THEN 0
        ELSE CHOOSE i \in starts : \A j \in starts : i <= j

\* The fallback of _extract_phone; digits is re.sub(r"[^\d]", "", text).
phone_fallback(digits) ==
    LET m == SearchTenDigits(digits)
    IN  IF m # 0 THEN FormatPhone(SubSeq(digits, m, m + 9)) ELSE NoneVal

\* _extract_phone.  lib is what the phonenumbers path does: the module is
\* missing ("unavailable"), the matcher raises ("raises"), no match is a
\* valid number ("no_valid_number"), or the first valid number is of region
\* US/CA with the digits lib.digits in its NATIONAL format lib.text
\* ("us_ca") or of another region with the E.164 format lib.text
\* ("international").
extract_phone(lib, digits) ==
    IF lib.kind = "us_ca"
    THEN IF Len(lib.digits) = 10 THEN FormatPhone(lib.digits) ELSE lib.text
    ELSE IF lib.kind = "international" THEN lib.text
    ELSE phone_fallback(digits)

\* The first match of (us_zip_re, ca_post_re, uk_post_re), in this order.
FirstZipMatch(m) ==
    IF m.us # NoneVal THEN m.us
    ELSE IF m.ca # NoneVal THEN m.ca
    ELSE m.uk

\* A mutant of _extract_zip: the cue is ignored.
extract_zip_uncued(z) ==
    IF FirstZipMatch(z.whole) # NoneVal
    THEN UpperStr(FirstZipMatch(z.whole))
    ELSE NoneVal

\* _extract_zip.  z.cued: zip_cues matches; z.window: the matches of the
\* three expressions in the 20 characters after the cue; z.whole: their
\* matches in the whole text.
extract_zip(z) ==
    IF z.cued /\ FirstZipMatch(z.window) # NoneVal
    THEN UpperStr(FirstZipMatch(z.window))
    ELSE IF FirstZipMatch(z.whole) # NoneVal
    THEN UpperStr(FirstZipMatch(z.whole))
    ELSE NoneVal

\* str.replace(".", "").title() on a name word of the model.
TitleNoDots(w) ==
    CASE w = "jamie" -> "Jamie"
      [] w = "J." -> "J"
      [] w = "." -> ""
      [] w = "Mr." -> "Mr"
      [] w = "lee" -> "Lee"
      [] w = "at" -> "At"
      [] w = "from" -> "From"
      [] w = "I'm" -> "I'M"
      [] OTHER -> w

\* The honorific prefixes of _split_name, r"^(mr|mrs|ms|dr|prof)\.?\s+".
IsHonorific(w) == w \in {"Mr", "Mr.", "mr", "Mrs", "Ms", "Dr", "Dr.", "Prof"}

\* _split_name on the words of a name: (first, last).
split_name(name) ==
    LET parts == IF Len(name) >= 2 /\ IsHonorific(name[1]) THEN Tail(name) ELSE name
    IN  IF parts = <<>> THEN <<NoneVal, NoneVal>>
        ELSE IF Len(parts) = 1 THEN <<TitleNoDots(parts[1]), NoneVal>>
        ELSE IF Len(parts) = 2
        THEN <<TitleNoDots(parts[1]), TitleNoDots(parts[2])>>
        ELSE <<TitleNoDots(parts[1]) \o " " \o TitleNoDots(parts[2]),
               TitleNoDots(parts[3])>>

\* A mutant of _extract_name: the lead-in phrases are consulted before the
\* PERSON spans.
extract_name_leadin_first(n) ==
    LET ner == IF n.nlp = "ok" /\ n.persons # <<>>
               THEN split_name(n.persons[1])
               ELSE <<NoneVal, NoneVal>>
    IN  IF n.leadin1 # <<>> THEN split_name(n.leadin1)
        ELSE IF n.leadin2 # <<>> THEN split_name(n.leadin2)
        ELSE IF Truthy(ner[1]) \/ Truthy(ner[2]) THEN ner
        ELSE IF n.leading # <<>> THEN split_name(n.leading)
        ELSE <<NoneVal, NoneVal>>

\* _extract_name.  n.nlp: the NER capability ("absent", "raises", or "ok"
\* with the PERSON spans n.persons); n.leadin1, n.leadin2: the name groups
\* matched by the two name_patterns; n.leading: the one matched by
\* leading_name_re.  A match is the words of the name, <<>> when the
\* expression does not match.
extract_name(n) ==
    LET ner == IF n.nlp = "ok" /\ n.persons # <<>>
               THEN split_name(n.persons[1])
               ELSE <<NoneVal, NoneVal>>
    IN  IF Truthy(ner[1]) \/ Truthy(ner[2]) THEN ner
        ELSE IF n.leadin1 # <<>> THEN split_name(n.leadin1)
        ELSE IF n.leadin2 # <<>> THEN split_name(n.leadin2)
        ELSE IF n.leading # <<>> THEN split_name(n.leading)
        ELSE <<NoneVal, NoneVal>>

\* The tiers that _extract_name consults: the NER when self.nlp is not None,
\* the name_patterns when the NER returned nothing, leading_name_re when no
\* pattern matched either.
name_tiers_consulted(n) ==
    LET ner == IF n.nlp = "ok" /\ n.persons # <<>>
               THEN split_name(n.persons[1])
               ELSE <<NoneVal, NoneVal>>
        returned_ner == Truthy(ner[1]) \/ Truthy(ner[2])
        returned_patterns == n.leadin1 # <<>> \/ n.leadin2 # <<>>
    IN  (IF n.nlp # "absent" THEN {"ner"} ELSE {})
        \cup (IF ~returned_ner THEN {"patterns"} ELSE {})
        \cup (IF ~returned_ner /\ ~returned_patterns THEN {"leading"} ELSE {})

NullContact ==
    [first_name |-> NoneVal, last_name |-> NoneVal, email |-> NoneVal,
     phone |-> NoneVal, zip |-> NoneVal]

\* A mutant of AnyField: the zip is forgotten.
AnyFieldButZip(contact) ==
    \/ Truthy(contact.email)
    \/ Truthy(contact.phone)
    \/ Truthy(contact.first_name)
    \/ Truthy(contact.last_name)

\* any([contact.email, contact.phone, contact.zip, contact.first_name,
\*      contact.last_name])
AnyField(contact) ==
    \/ Truthy(contact.email)
    \/ Truthy(contact.phone)
    \/ Truthy(contact.zip)
    \/ Truthy(contact.first_name)
    \/ Truthy(contact.last_name)

\* extract_contact on the extracted pieces: the record, or null.
build_contact(email, phone, zip, name) ==
    LET contact == [first_name |-> IF Truthy(name[1]) THEN name[1] ELSE NoneVal,
                    last_name |-> IF Truthy(name[2]) THEN name[2] ELSE NoneVal,
                    email |-> email, phone |-> phone, zip |-> zip]
    IN  IF ~AnyField(contact)
        THEN [null |-> TRUE, contact |-> NullContact]
        ELSE [null |-> FALSE, contact |-> contact]

(***************************************************************************)
(* The inputs of the contact extractor.                                    *)
(***************************************************************************)
EmailMatches == {NoneVal, "Bob@X.com"}

NoDigits == <<>>

PhoneLibOutcomes ==
    {[kind |-> "unavailable", digits |-> NoDigits, text |-> ""],
     [kind |-> "raises", digits |-> NoDigits, text |-> ""],
     [kind |-> "no_valid_number", digits |-> NoDigits, text |-> ""],
     [kind |-> "us_ca", text |-> "(310) 555-0099",
      digits |-> <<"3", "1", "0", "5", "5", "5", "0", "0", "9", "9">>],
     [kind |-> "international", digits |-> NoDigits, text |-> "+442071234567"]}

\* The digits of the text: none, nine, ten and eleven of them, and the
\* fifteen of "310-555-0099, 94105".
TextDigits ==
    {NoDigits,
     <<"9", "4", "1", "0", "5", "5", "5", "0", "1">>,
     <<"3", "1", "0", "5", "5", "5", "0", "0", "9", "9">>,
     <<"1", "3", "1", "0", "5", "5", "5", "0", "0", "9", "9">>,
     <<"3", "1", "0", "5", "5", "5", "0", "0", "9", "9", "9", "4", "1", "0", "5">>}

NoZipMatch == [us |-> NoneVal, ca |-> NoneVal, uk |-> NoneVal]

ZipMatches ==
    {NoZipMatch,
     [us |-> "94105", ca |-> NoneVal, uk |-> NoneVal],
     [us |-> "10001", ca |-> "k1a 0b1", uk |-> NoneVal],
     [us |-> NoneVal, ca |-> "k1a 0b1", uk |-> NoneVal],
     [us |-> NoneVal, ca |-> NoneVal, uk |-> "sw1a 1aa"]}

\* The matches of the zip expressions: a match in the window after the cue
\* is a match in the text as well.
ZipInputs ==
    {z \in [cued : BOOLEAN, window : ZipMatches, whole : ZipMatches] :
        /\ ~z.cued => z.window = NoZipMatch
        /\ z.window # NoZipMatch => z.whole # NoZipMatch}

PersonSpans == {<< >>, << <<"Jamie", "Lee">> >>, << <<".">> >>, << <<"Lee", ".">> >>}

NameMatches == {<< >>, <<"jamie">>, <<"Mr.", "Jamie", "Lee">>}

NameInputs ==
    {n \in [nlp : {"absent", "raises", "ok"}, persons : PersonSpans,
            leadin1 : NameMatches, leadin2 : {<< >>, <<"J.", "Lee">>},
            leading : {<< >>, <<"Jamie", "Lee">>}] :
        n.nlp # "ok" => n.persons = << >>}

(***************************************************************************)
(* The contact extractor as a state machine: one call of extract_contact   *)
(* per request; con records the extracted pieces and the result.           *)
(***************************************************************************)
NoName ==
    [nlp |-> "absent", persons |-> << >>, leadin1 |-> << >>, leadin2 |-> << >>,
     leading |-> << >>]

ConIdle ==
    [pc |-> "idle", lib |-> "none", digits |-> NoDigits,
     name_in |-> NoName, consulted |-> {}, text |-> << >>,
     zip_in |-> [cued |-> FALSE, window |-> NoZipMatch, whole |-> NoZipMatch],
     email |-> NoneVal, phone |-> NoneVal, zip |-> NoneVal,
     first |-> NoneVal, last |-> NoneVal,
     ret |-> [null |-> TRUE, contact |-> NullContact]]

\* contact_service.extract_contact(message.text)
ExtractContact ==
    /\ con.pc = "idle"
    /\ \E m \in EmailMatches, lib \in PhoneLibOutcomes, digits \in TextDigits,
          z \in ZipInputs, n \in NameInputs :
          LET email == extract_email(m)
              phone == extract_phone(lib, digits)
              zip == extract_zip(z)
              name == extract_name(n)
          IN  con' = [pc |-> "done", lib |-> lib.kind, digits |-> digits,
                      name_in |-> n, consulted |-> name_tiers_consulted(n),
                      text |-> << >>, zip_in |-> z,
                      email |-> email, phone |-> phone, zip |-> zip,
                      first |-> name[1], last |-> name[2],
                      ret |-> build_contact(email, phone, zip, name)]
    /\ UNCHANGED <<cls, ent, emergency_cache, thr, api_calls, enr, req>>

\* The result is handed to the caller; the service keeps nothing of it.
ContactReturn ==
    /\ con.pc = "done"
    /\ con' = ConIdle
    /\ UNCHANGED <<cls, ent, emergency_cache, thr, api_calls, enr, req>>

NextContact ==
    \/ ExtractContact
    \/ ContactReturn

(***************************************************************************)
(* The lead-in phrases of the name extraction, on the words of a text.     *)
(* Both name_patterns are compiled with re.IGNORECASE, which applies to    *)
(* the whole expression, the class [A-Z] of name_token included.           *)
(***************************************************************************)
\* The longest text searched for a lead-in phrase.
MaxNameLen == 3

\* Words: two one-word lead-in phrases, a capitalised and three lower-case
\* words, a number and a single letter.
NameVocabulary == {"I'm", "from", "Jamie", "lee", "at", "5", "x"}

NameTexts == UNION {[1..n -> NameVocabulary] : n \in 1..MaxNameLen}

\* name_token = r"[A-Z][A-Za-z'’\-\.]+" under re.IGNORECASE: a letter of
\* either case, then at least one more character of the class.
name_token(w) == w \in {"I'm", "from", "Jamie", "lee", "at"}

\* The one-word alternatives of (?:my name is|i'm|i am|this is|it'?s),
\* matched case-insensitively.
LeadIn1(w) == w \in {"I'm", "i'm", "It's", "it's", "Its", "its"}

\* \bfrom, matched case-insensitively.
LeadIn2(w) == w \in {"From", "from"}

\* The number of name tokens, at most three, from word i on.
TokensFrom(text, i) ==
    IF i > Len(text) \/ ~name_token(text[i]) THEN 0
    ELSE IF i + 1 > Len(text) \/ ~name_token(text[i + 1]) THEN 1
    ELSE IF i + 2 > Len(text) \/ ~name_token(text[i + 2]) THEN 2
    ELSE 3

\* rx.search(text).group("name") for a pattern with the lead-in pattern_1
\* (TRUE) or "from" (FALSE): the leftmost lead-in that one to three name
\* tokens follow, with as many of the tokens as there are; << >> when the
\* pattern does not match.
search_name_pattern(text, pattern_1) ==
    LET Lead(w) == IF pattern_1 THEN LeadIn1(w) ELSE LeadIn2(w)
        starts == {i \in 1..Len(text) : Lead(text[i]) /\ TokensFrom(text, i + 1) > 0}
    IN  IF starts = {} THEN << >>
        ELSE LET i == CHOOSE j \in starts : \A k \in starts : j <= k
             IN  SubSeq(text, i + 1, i + TokensFrom(text, i + 1))

\* for rx in self.name_patterns: m = rx.search(text); if m: return ...
name_patterns_match(text) ==
    IF search_name_pattern(text, TRUE) # << >> THEN search_name_pattern(text, TRUE)
    ELSE search_name_pattern(text, FALSE)

\* The lead-in tier of _extract_name on a text.
MatchNamePatterns ==
    /\ con.pc = "idle"
    /\ \E text \in NameTexts :
          LET m == name_patterns_match(text)
              name == IF m # << >> THEN split_name(m) ELSE <<NoneVal, NoneVal>>
          IN  con' = [ConIdle EXCEPT !.pc = "matched", !.text = text,
                                     !.consulted = {"patterns"},
                                     !.first = name[1], !.last = name[2]]
    /\ UNCHANGED <<cls, ent, emergency_cache, thr, api_calls, enr, req>>

NamePatternsReturn ==
    /\ con.pc = "matched"
    /\ con' = ConIdle
    /\ UNCHANGED <<cls, ent, emergency_cache, thr, api_calls, enr, req>>

NextNamePatterns ==
    \/ MatchNamePatterns
    \/ NamePatternsReturn

(***************************************************************************)
(* The entity extractor.  An entity is a record [type, value].             *)
(***************************************************************************)
MaxEntities == 3

CITY == "city"

HOTEL == "hotel"

RESTAURANT == "restaurant"

EntityType == {CITY, HOTEL, RESTAURANT}

EntityValues == {"Paris", "PARIS", "Nice"}

Entity == [type : EntityType, value : EntityValues]

\* entity.value.lower()
LowerValue(v) ==
    CASE v = "Paris" -> "paris"
      [] v = "PARIS" -> "paris"
      [] v = "Nice" -> "nice"
      [] OTHER -> v

\* entity_key = (entity.type, entity.value.lower())
entity_key(e) == <<e.type, LowerValue(e.value)>>

RECURSIVE dedup_from(_, _, _)
\* The loop of extract_entities over the entities that are left, with the
\* list unique_entities and the set seen built so far.
dedup_from(entities, unique_entities, seen) ==
    IF entities = <<>> THEN unique_entities
    ELSE LET entity == Head(entities)
         IN  IF entity_key(entity) \notin seen
             THEN dedup_from(Tail(entities), Append(unique_entities, entity),
                             seen \cup {entity_key(entity)})
             ELSE dedup_from(Tail(entities), unique_entities, seen)

\* A mutant of the deduplication: the key is the lowered value alone.
remove_duplicates_by_value(entities) ==
    LET F[i \in 0..Len(entities)] ==
            IF i = 0 THEN <<>>
            ELSE IF \E j \in 1..(i - 1) :
                       LowerValue(entities[j].value) = LowerValue(entities[i].value)
                 THEN F[i - 1]
                 ELSE Append(F[i - 1], entities[i])
    IN  F[Len(entities)]

\* "Remove duplicates while preserving order"
remove_duplicates(entities) == dedup_from(entities, <<>>, {})

\* The outcomes of _extract_entities_with_openai.  The call, json.loads,
\* EntityType(...) or a missing key raises and the function answers [], or
\* the answer parses and the function returns its entities.
PrimaryFailureKinds == {"exception", "timeout", "non_json", "schema_violation"}

EntityLists == UNION {[1..n -> Entity] : n \in 0..MaxEntities}

PrimaryOutcomes ==
    [kind : PrimaryFailureKinds, entities : {<<>>}]
    \cup [kind : {"ok"}, entities : EntityLists]

\* _extract_entities_with_openai: the list the function returns.
extract_entities_with_openai(primary) ==
    IF primary.kind = "ok" THEN primary.entities ELSE <<>>

\* [Entity(type=t, value=v) for v in found]
EntitiesOf(t, found) == [i \in 1..Len(found) |-> [type |-> t, value |-> found[i]]]

\* _extract_entities_with_spacy: the cities, then the hotels, then the
\* restaurants that the three sub-extractors return.
extract_entities_with_spacy(fb) ==
    EntitiesOf(CITY, fb.cities) \o EntitiesOf(HOTEL, fb.hotels)
    \o EntitiesOf(RESTAURANT, fb.restaurants)

\* What a sub-extractor returns: list(set) of cleaned names, in any order.
FoundLists ==
    {f \in UNION {[1..n -> EntityValues] : n \in 0..2} :
        \A i, j \in 1..Len(f) : i # j => f[i] # f[j]}

\* The fallback path: the NER capability raises in one of the
\* sub-extractors, or the three return their lists.
FallbackOutcomes ==
    {[kind |-> "raises", cities |-> <<>>, hotels |-> <<>>, restaurants |-> <<>>]}
    \cup [kind : {"ok"}, cities : FoundLists, hotels : FoundLists,
          restaurants : {<<>>, <<"Nice">>}]

(***************************************************************************)
(* The entity extractor as a state machine.  extract_entities calls the    *)
(* external service (ExtractEntitiesPrimary) and, when the list it gets is *)
(* empty, the local extractors (ExtractEntitiesFallback).  ent records     *)
(* the call: the outcome of the primary call, whether the fallback ran,    *)
(* the candidate list, and the returned list.                              *)
(***************************************************************************)
EntIdle ==
    [pc |-> "idle", primary |-> "none", primary_calls |-> 0, fallback_runs |-> 0,
     fallback |-> "none", entities |-> <<>>, ret |-> <<>>, returned |-> "nothing"]

\* `if openai_entities:` the list of the primary path is used when it is
\* not empty.
UsePrimary(openai_entities) == openai_entities # <<>>

\* A mutant of extract_entities: the outer try is missing and the
\* exception of the fallback path leaves the function.
entity_extraction_reraised == [returned |-> "exception", ret |-> <<>>]

\* The except branch of extract_entities: `return []`.
entity_extraction_failed == [returned |-> "list", ret |-> <<>>]

\* A mutant of extract_entities: the primary call is tried again when it
\* yields nothing.
after_primary_failure_retry == "idle"

\* Where extract_entities goes on when the primary call yields nothing: the
\* else branch, which calls the fallback path.
after_primary_failure == "fallback"

\* extract_entities up to the end of the primary path.
ExtractEntitiesPrimary(primary) ==
    /\ ent.pc = "idle"
    /\ LET openai_entities == extract_entities_with_openai(primary)
       IN  IF UsePrimary(openai_entities)
           THEN ent' = [ent EXCEPT !.pc = "done", !.primary = primary.kind,
                                   !.primary_calls = @ + 1,
                                   !.entities = openai_entities,
                                   !.ret = remove_duplicates(openai_entities),
                                   !.returned = "list"]
           ELSE ent' = [ent EXCEPT !.pc = after_primary_failure,
                                   !.primary = primary.kind,
                                   !.primary_calls = @ + 1]
    /\ UNCHANGED <<cls, con, emergency_cache, thr, api_calls, enr, req>>

\* extract_entities from the call of _extract_entities_with_spacy on.
ExtractEntitiesFallback(fb) ==
    /\ ent.pc = "fallback"
    /\ IF fb.kind = "raises"
       THEN ent' = [ent EXCEPT !.pc = "done", !.fallback = "raises",
                               !.fallback_runs = @ + 1,
                               !.ret = entity_extraction_failed.ret,
                               !.returned = entity_extraction_failed.returned]
       ELSE LET entities == extract_entities_with_spacy(fb)
            IN  ent' = [ent EXCEPT !.pc = "done", !.fallback = "ok",
                                   !.fallback_runs = @ + 1,
                                   !.entities = entities,
                                   !.ret = remove_duplicates(entities),
                                   !.returned = "list"]
    /\ UNCHANGED <<cls, con, emergency_cache, thr, api_calls, enr, req>>

\* The result is handed to the caller; the service keeps nothing of it.
EntitiesReturn ==
    /\ ent.pc = "done"
    /\ ent' = EntIdle
    /\ UNCHANGED <<cls, con, emergency_cache, thr, api_calls, enr, req>>

NextEntities ==
    \/ ent.pc = "idle" /\ \E primary \in PrimaryOutcomes : ExtractEntitiesPrimary(primary)
    \/ ent.pc = "fallback" /\ \E fb \in FallbackOutcomes : ExtractEntitiesFallback(fb)
    \/ EntitiesReturn

(***************************************************************************)
(* The emergency-number cache of the enrichment engine.  The service is    *)
(* one object of the process (main.py) and the requests of the endpoint    *)
(* run on the threads of a pool, so calls of _get_emergency_number         *)
(* interleave: between the test of the cache and the write of the cache    *)
(* lies the external lookup.                                               *)
(***************************************************************************)
Threads == {1, 2}

\* Country codes of city_to_country that the model looks up: two of the
\* fallback table, one that the table does not have.
Codes == {"US", "GB", "JP"}

\* fallback_numbers.get(country_code)
fallback_numbers(country_code) ==
    CASE country_code \in {"US", "CA", "MX"} -> "911"
      [] country_code = "GB" -> "999"
      [] country_code \in {"FR", "IT", "ES", "NL", "AT", "CH", "BE", "PT", "IE",
                           "DK", "SE", "NO", "FI", "CZ", "HU", "GR", "PL", "SK",
                           "SI", "HR", "LU", "DE", "ZA"} -> "112"
      [] OTHER -> NoneVal

\* A JSON value of the payload: a list of numbers, or (list = FALSE) a
\* string.  A missing key is the empty list: both are falsy.  An item of a
\* list is a JSON string, or the JSON integer 911 (written "#911"), or the
\* nested JSON list ["911"] (written "['911']").
NoList == [list |-> TRUE, items |-> <<>>]

ListOf(items) == [list |-> TRUE, items |-> items]

NoNumbers == [All |-> NoList, GSM |-> NoList, Fixed |-> NoList]

\* x.get('All') or x.get('GSM') or x.get('Fixed') or []
FirstTruthy(x) ==
    IF x.All.items # <<>> THEN x.All
    ELSE IF x.GSM.items # <<>> THEN x.GSM
    ELSE IF x.Fixed.items # <<>> THEN x.Fixed
    ELSE NoList

\* The answers of the external lookup: requests.get or response.json()
\* raises, the status is not 200, or the payload is data['data'].
Payloads ==
    {[Member_112 |-> TRUE, Dispatch |-> [NoNumbers EXCEPT !.All = ListOf(<<"112">>)],
      Police |-> NoNumbers],
     [Member_112 |-> TRUE, Dispatch |-> NoNumbers, Police |-> NoNumbers],
     [Member_112 |-> FALSE, Dispatch |-> [NoNumbers EXCEPT !.All = ListOf(<<"911">>)],
      Police |-> NoNumbers],
     [Member_112 |-> FALSE,
      Dispatch |-> [NoNumbers EXCEPT !.GSM = ListOf(<<"112">>),
                                     !.Fixed = ListOf(<<"999">>)],
      Police |-> NoNumbers],
     [Member_112 |-> FALSE, Dispatch |-> NoNumbers,
      Police |-> [NoNumbers EXCEPT !.All = ListOf(<<"110", "112">>)]],
     [Member_112 |-> FALSE,
      Dispatch |-> [NoNumbers EXCEPT !.All = [list |-> FALSE, items |-> <<"911">>]],
      Police |-> NoNumbers],
     [Member_112 |-> FALSE, Dispatch |-> [NoNumbers EXCEPT !.All = ListOf(<<"">>)],
      Police |-> NoNumbers],
     [Member_112 |-> FALSE, Dispatch |-> [NoNumbers EXCEPT !.All = ListOf(<<"#911">>)],
      Police |-> NoNumbers],
     [Member_112 |-> FALSE, Dispatch |-> [NoNumbers EXCEPT !.All = ListOf(<<"['911']">>)],
      Police |-> NoNumbers],
     [Member_112 |-> FALSE, Dispatch |-> NoNumbers, Police |-> NoNumbers]}

ApiFailureKinds == {"exception", "timeout", "status_not_200"}

NoPayload == [Member_112 |-> FALSE, Dispatch |-> NoNumbers, Police |-> NoNumbers]

ApiResponses ==
    [kind : ApiFailureKinds, payload : {NoPayload}]
    \cup [kind : {"ok"}, payload : Payloads]

\* The number that the try block of _get_emergency_number returns from the
\* response, or NoneVal when the block falls through to the fallback.
number_from_api(resp) ==
    IF resp.kind # "ok" THEN NoneVal
    ELSE LET info == resp.payload
         IN  IF info.Member_112 THEN NoneVal
             ELSE LET emergency_data ==
                          IF FirstTruthy(info.Dispatch).items # <<>>
                          THEN FirstTruthy(info.Dispatch)
                          ELSE FirstTruthy(info.Police)
                  IN  IF emergency_data.items # <<>> /\ emergency_data.list
                      THEN emergency_data.items[1]
                      ELSE NoneVal

\* `country_code in self.emergency_cache`
in_cache(cache, country_code) == country_code \in DOMAIN cache

\* A mutant of the write of the cache: the cache is replaced by the one
\* entry.
cache_put_alone(cache, country_code, number) ==
    [c \in {country_code} |-> number]

\* A mutant of the write of the cache: an absent number is not stored.
cache_put_truthy(cache, country_code, number) ==
    IF number = NoneVal THEN cache
    ELSE [c \in DOMAIN cache \cup {country_code} |->
             IF c = country_code THEN number ELSE cache[c]]

\* A mutant of the write of the cache: the first writer of a code wins.
cache_put_first(cache, country_code, number) ==
    IF country_code \in DOMAIN cache THEN cache
    ELSE [c \in DOMAIN cache \cup {country_code} |->
             IF c = country_code THEN number ELSE cache[c]]

\* A mutant of the write of the cache: the number is not stored.
cache_put_nothing(cache, country_code, number) == cache

\* self.emergency_cache[country_code] = number
cache_put(cache, country_code, number) ==
    [c \in DOMAIN cache \cup {country_code} |->
        IF c = country_code THEN number ELSE cache[c]]

\* The external lookups of one code that the model follows.
MaxApiCalls == 3

ThrIdle == [pc |-> "idle", code |-> "US", ret |-> NoneVal, source |-> "none",
            member_112 |-> FALSE, api |-> "none"]

\* _get_emergency_number up to the external lookup: the cached value is
\* returned, or requests.get is called.
LookupStart(t, country_code) ==
    /\ thr[t].pc = "idle"
    /\ IF in_cache(emergency_cache, country_code)
       THEN /\ thr' = [thr EXCEPT ![t] = [pc |-> "done", code |-> country_code,
                                          ret |-> emergency_cache[country_code],
                                          source |-> "cache", member_112 |-> FALSE,
                                          api |-> "none"]]
            /\ UNCHANGED api_calls
       ELSE /\ api_calls[country_code] < MaxApiCalls
            /\ thr' = [thr EXCEPT ![t] = [pc |-> "calling", code |-> country_code,
                                          ret |-> NoneVal, source |-> "none",
                                          member_112 |-> FALSE, api |-> "none"]]
            /\ api_calls' = [api_calls EXCEPT ![country_code] = @ + 1]
    /\ UNCHANGED <<cls, con, ent, emergency_cache, enr, req>>

\* _get_emergency_number from the answer of the external lookup on: the
\* number of the payload, or else the one of the fallback table, is stored
\* and returned.
LookupResolve(t, resp) ==
    /\ thr[t].pc = "calling"
    /\ LET country_code == thr[t].code
           number == number_from_api(resp)
           fallback == fallback_numbers(country_code)
       IN  IF number # NoneVal
           THEN /\ emergency_cache' = cache_put(emergency_cache, country_code, number)
                /\ thr' = [thr EXCEPT ![t] = [@ EXCEPT !.pc = "done", !.ret = number,
                                                       !.source = "api",
                                                       !.api = resp.kind]]
           ELSE /\ emergency_cache' = cache_put(emergency_cache, country_code, fallback)
                /\ thr' = [thr EXCEPT ![t] = [@ EXCEPT !.pc = "done", !.ret = fallback,
                                                       !.source = "fallback",
                                                       !.api = resp.kind,
                                                       !.member_112 =
                                                           resp.payload.Member_112]]
    /\ UNCHANGED <<cls, con, ent, api_calls, enr, req>>

\* The number is handed to the caller.
LookupReturn(t) ==
    /\ thr[t].pc = "done"
    /\ thr' = [thr EXCEPT ![t] = ThrIdle]
    /\ UNCHANGED <<cls, con, ent, emergency_cache, api_calls, enr, req>>

NextCache ==
    \/ \E t \in Threads, country_code \in Codes : LookupStart(t, country_code)
    \/ \E t \in Threads, resp \in ApiResponses : LookupResolve(t, resp)
    \/ \E t \in Threads : LookupReturn(t)

(***************************************************************************)
(* The enrichment engine: the pure parts.                                  *)
(***************************************************************************)
\* The longest entity list handed to generate_enrichments in the model.
MaxCities == 2

\* The texts handed to generate_enrichments: one for each mood, with and
\* without a travel phase and a disruption type.
EnrTexts ==
    {<<"terrible">>, <<"great", "terrible">>, <<"helpful">>, <<"urgent">>,
     <<"delayed", "arrived">>, <<"hello">>,
     <<"terrible", "horrible", "great">>,
     <<"terrible", "horrible", "worst", "disaster", "great", "urgent">>,
     <<"urgent", "helpful", "stuck">>, <<"urgent", "help", "stuck">>}

\* The entities handed to generate_enrichments: cities of the table (two of
\* one country), a city the table does not have, and a hotel.
EnrEntities ==
    {[type |-> CITY, value |-> "Tokyo"], [type |-> CITY, value |-> "kyoto"],
     [type |-> CITY, value |-> "London"], [type |-> CITY, value |-> "Atlantis"],
     [type |-> HOTEL, value |-> "London"]}

EnrEntityLists == UNION {[1..n -> EnrEntities] : n \in 0..MaxCities}

\* city_entity.value.lower()
LowerCity(v) ==
    CASE v = "Tokyo" -> "tokyo"
      [] v = "London" -> "london"
      [] v = "Atlantis" -> "atlantis"
      [] OTHER -> v

\* self.city_to_country.get(city_name), on the part of the table that the
\* model's cities and codes use.
city_to_country(city_name) ==
    CASE city_name \in {"new york", "boston", "chicago"} -> "US"
      [] city_name \in {"london", "edinburgh", "manchester"} -> "GB"
      [] city_name \in {"tokyo", "kyoto", "osaka"} -> "JP"
      [] OTHER -> NoneVal

\* [e for e in entities if e.type.value == "city"]
city_entities_of(entities) == SelectSeq(entities, LAMBDA e : e.type = CITY)

\* set.add(number) raises TypeError for a list.
Unhashable(number) == number = "['911']"

\* A JSON integer.
IsInt(number) == number = "#911"

\* Python's order of the strings that the model resolves: position in this
\* list.
StrOrder == <<"110", "112", "911", "999">>

StrRank(number) == CHOOSE i \in 1..Len(StrOrder) : StrOrder[i] = number

\* a < b as sorted() compares two elements of one type.
LessThan(a, b) ==
    IF IsInt(a) \/ IsInt(b) THEN FALSE ELSE StrRank(a) < StrRank(b)

\* sorted(list(emergency_numbers)) raises TypeError when it compares an int
\* with a str.
SortRaises(numbers) ==
    \E a, b \in numbers : IsInt(a) /\ ~IsInt(b)

RECURSIVE sorted_descending(_)
\* A mutant of sorted(): the greatest element first.
sorted_descending(numbers) ==
    IF numbers = {} THEN <<>>
    ELSE LET greatest == CHOOSE a \in numbers : \A b \in numbers : ~LessThan(a, b)
         IN  <<greatest>> \o sorted_descending(numbers \ {greatest})

RECURSIVE sorted(_)
\* sorted(list(emergency_numbers)) of a set that sorted() can compare.
sorted(numbers) ==
    IF numbers = {} THEN <<>>
    ELSE LET least == CHOOSE a \in numbers : \A b \in numbers : ~LessThan(b, a)
         IN  <<least>> \o sorted(numbers \ {least})

negative_words ==
    << <<"frustrated">>, <<"angry">>, <<"upset">>, <<"terrible">>, <<"horrible">>,
       <<"worst">>, <<"disappointed">>, <<"furious">>, <<"outraged">>,
       <<"unacceptable">>, <<"disaster">> >>

positive_words ==
    << <<"great">>, <<"excellent">>, <<"wonderful">>, <<"amazing">>,
       <<"fantastic">>, <<"perfect">>, <<"love">>, <<"thank", "you">>,
       <<"appreciate">>, <<"helpful">> >>

urgent_words ==
    << <<"urgent">>, <<"emergency">>, <<"asap">>, <<"immediately">>, <<"help">>,
       <<"stuck">>, <<"stranded">> >>

\* min(count / d, 1.0) as the fraction num / den.
Intensity(count, d) == [num |-> Min(count, d), den |-> d]

\* A mutant of _analyze_sentiment: a tie of the negative and the positive
\* count is negative.
analyze_sentiment_tie_negative(text) ==
    LET text_lower == LowerText(text)
        negative_count == CountKeywords(negative_words, text_lower)
        positive_count == CountKeywords(positive_words, text_lower)
        urgent_count == CountKeywords(urgent_words, text_lower)
    IN  IF negative_count >= positive_count /\ negative_count > 0
        THEN [mood |-> "negative", intensity |-> Intensity(negative_count, 3)]
        ELSE IF positive_count > 0
        THEN [mood |-> "positive", intensity |-> Intensity(positive_count, 3)]
        ELSE IF urgent_count > 0
        THEN [mood |-> "stressed", intensity |-> Intensity(urgent_count, 2)]
        ELSE [mood |-> "neutral", intensity |-> [num |-> 1, den |-> 2]]

\* _analyze_sentiment
analyze_sentiment(text) ==
    LET text_lower == LowerText(text)
        negative_count == CountKeywords(negative_words, text_lower)
        positive_count == CountKeywords(positive_words, text_lower)
        urgent_count == CountKeywords(urgent_words, text_lower)
    IN  IF negative_count > positive_count /\ negative_count > 0
        THEN [mood |-> "negative", intensity |-> Intensity(negative_count, 3)]
        ELSE IF positive_count > 0
        THEN [mood |-> "positive", intensity |-> Intensity(positive_count, 3)]
        ELSE IF urgent_count > 0
        THEN [mood |-> "stressed", intensity |-> Intensity(urgent_count, 2)]
        ELSE [mood |-> "neutral", intensity |-> [num |-> 1, den |-> 2]]

pre_travel ==
    << <<"planning">>, <<"booking">>, <<"will", "travel">>, <<"next", "month">>,
       <<"next", "week">>, <<"planning", "to", "visit">>, <<"want", "to", "book">>,
       <<"looking", "for">> >>

in_transit ==
    << <<"currently", "in">>, <<"right", "now">>, <<"at", "the", "airport">>,
       <<"on", "the", "plane">>, <<"arrived">>, <<"here", "now">>,
       <<"just", "landed">>, <<"checking", "in">> >>

post_travel ==
    << <<"just", "returned">>, <<"came", "back">>, <<"was", "in">>,
       <<"visited", "last">>, <<"trip", "was">>, <<"during", "my", "stay">> >>

\* any(phrase in text_lower for phrase in phrases)
AnyKeyword(phrases, tl) == CountKeywords(phrases, tl) > 0

\* _detect_travel_phase
detect_travel_phase(text) ==
    LET text_lower == LowerText(text)
    IN  IF AnyKeyword(in_transit, text_lower) THEN "in_transit"
        ELSE IF AnyKeyword(post_travel, text_lower) THEN "post_travel"
        ELSE IF AnyKeyword(pre_travel, text_lower) THEN "pre_travel"
        ELSE NoneVal

\* disruption_types, in the order of the dict.
disruption_types ==
    << [name |-> "flight_delay",
        keywords |-> << <<"delayed">>, <<"delay">>, <<"late", "flight">>,
                        <<"postponed">> >>],
       [name |-> "cancellation",
        keywords |-> << <<"cancelled">>, <<"canceled">>, <<"cancellation">> >>],
       [name |-> "lost_luggage",
        keywords |-> << <<"lost", "luggage">>, <<"missing", "bag">>, <<"baggage">> >>],
       [name |-> "missed_connection",
        keywords |-> << <<"missed", "connection">>, <<"missed", "flight">>,
                        <<"tight", "connection">> >>],
       [name |-> "weather",
        keywords |-> << <<"weather">>, <<"storm">>, <<"snow">>, <<"fog">>,
                        <<"hurricane">> >>],
       [name |-> "strike",
        keywords |-> << <<"strike">>, <<"industrial", "action">>,
                        <<"staff", "shortage">> >> ] >>

\* _detect_travel_disruption
detect_travel_disruption(text) ==
    LET text_lower == LowerText(text)
        hits == {i \in 1..Len(disruption_types) :
                    AnyKeyword(disruption_types[i].keywords, text_lower)}
    IN  IF hits = {} THEN NoneVal
        ELSE disruption_types[CHOOSE i \in hits : \A j \in hits : i <= j].name

(***************************************************************************)
(* The enrichment engine as a state machine.  One request runs             *)
(* generate_enrichments on thread 1: the loop of _get_emergency_numbers    *)
(* calls _get_emergency_number (LookupStart, LookupResolve) for one city   *)
(* after the other, then _generate_creative_enrichments computes the local *)
(* enrichments and calls the recommendation service.  Thread 2 runs the    *)
(* lookups of other requests in between.                                   *)
(*                                                                         *)
(* A value of the bag is [null, val]: null is Python's None.               *)
(***************************************************************************)
JNull == [null |-> TRUE, val |-> <<>>]

JVal(v) == [null |-> FALSE, val |-> v]

\* An Optional[str].
JStr(v) == IF v = NoneVal THEN JNull ELSE JVal(v)

\* enrichments[key] = value
bag_put(bag, key, value) ==
    [k \in DOMAIN bag \cup {key} |-> IF k = key THEN value ELSE bag[k]]

\* A mutant of `if value: enrichments[key] = value`: the test is missing.
put_if_always(bag, key, truthy, value) == bag_put(bag, key, value)

\* if value: enrichments[key] = value
put_if(bag, key, truthy, value) ==
    IF truthy THEN bag_put(bag, key, value) ELSE bag

\* The outcomes of _generate_support_recommendations: the call or
\* json.loads raises, or json.loads returns a JSON value (the object with
\* the six fields, another object, or null).
RecFailureKinds == {"exception", "timeout", "non_json"}

RecResults == {"six_fields", "other_object", "null"}

RecOutcomes ==
    [kind : RecFailureKinds, result : {"null"}] \cup [kind : {"ok"}, result : RecResults]

\* A mutant of _generate_support_recommendations: a failure returns a
\* default block.
generate_support_recommendations_default(rec) ==
    IF rec.kind # "ok" THEN JVal([support_recommendations |-> JVal("default")])
    ELSE JVal([support_recommendations |->
                  IF rec.result = "null" THEN JNull ELSE JVal(rec.result)])

\* What _generate_support_recommendations returns: None, or the dict
\* {"support_recommendations": result}.
generate_support_recommendations(rec) ==
    IF rec.kind # "ok" THEN JNull
    ELSE JVal([support_recommendations |->
                  IF rec.result = "null" THEN JNull ELSE JVal(rec.result)])

\* The end of _get_emergency_numbers:
\* sorted(list(emergency_numbers)) if emergency_numbers else None
emergency_numbers_result(numbers) ==
    IF numbers = {} THEN JNull ELSE JVal(sorted(numbers))

\* A mutant of _generate_creative_enrichments without the sentiment.
creative_without_sentiment(text) ==
    LET travel_phase == detect_travel_phase(text)
        disruption_type == detect_travel_disruption(text)
        e2 == put_if(<<>>, "travel_phase", Truthy(travel_phase), JStr(travel_phase))
    IN  put_if(e2, "disruption_type", Truthy(disruption_type), JStr(disruption_type))

\* _generate_creative_enrichments up to the call of the recommendation
\* service: sentiment, travel phase and disruption type.
creative_local(text) ==
    LET sentiment == analyze_sentiment(text)
        travel_phase == detect_travel_phase(text)
        disruption_type == detect_travel_disruption(text)
        e1 == put_if(<<>>, "sentiment_analysis", TRUE, JVal(sentiment))
        e2 == put_if(e1, "travel_phase", Truthy(travel_phase), JStr(travel_phase))
    IN  put_if(e2, "disruption_type", Truthy(disruption_type), JStr(disruption_type))

\* enrichments.update(creative_enrichments)
bag_update(bag, other) ==
    [k \in DOMAIN bag \cup DOMAIN other |-> IF k \in DOMAIN other THEN other[k] ELSE bag[k]]

NoCalls == [c \in Codes |-> 0]

ReqIdle ==
    [pc |-> "idle", message_id |-> "", text |-> <<>>, invoked |-> {}, status |-> 0,
     exc |-> "", detail |-> <<>>]

EnrIdle ==
    [pc |-> "idle", text |-> <<>>, cities |-> 0, todo |-> <<>>, code |-> "US",
     numbers |-> {}, lookups |-> NoCalls, calls |-> NoCalls, failed |-> NoCalls, fallbacks |-> NoCalls,
     rec_calls |-> 0,
     rec |-> "none", creative |-> <<>>, bag |-> <<>>, raised |-> "none",
     ret |-> "nothing"]

\* generate_enrichments(text, entities, category) is called:
\* _get_emergency_numbers selects the city entities.
EnrichStart ==
    /\ enr.pc = "idle"
    /\ \E text \in EnrTexts, entities \in EnrEntityLists, category \in MessageCategory :
          enr' = [EnrIdle EXCEPT !.pc = "cities", !.text = text,
                                 !.cities = Len(city_entities_of(entities)),
                                 !.todo = city_entities_of(entities)]
    /\ UNCHANGED <<cls, con, ent, emergency_cache, thr, api_calls, req>>

\* One pass of the loop of _get_emergency_numbers up to the call of
\* _get_emergency_number.
EnrichCity ==
    /\ enr.pc = "cities"
    /\ enr.todo # <<>>
    /\ LET city_name == LowerCity(Head(enr.todo).value)
           country_code == city_to_country(city_name)
       IN  IF Truthy(country_code)
           THEN enr' = [enr EXCEPT !.pc = "lookup", !.code = country_code,
                                   !.todo = Tail(@)]
           ELSE enr' = [enr EXCEPT !.todo = Tail(@)]
    /\ UNCHANGED <<cls, con, ent, emergency_cache, thr, api_calls, req>>

\* The request's call of _get_emergency_number(country_code).
EnrichLookupStart ==
    /\ enr.pc = "lookup"
    /\ LookupStart(1, enr.code)

\* The answer of the external lookup of the request arrives.
EnrichLookupResolve ==
    /\ enr.pc = "lookup"
    /\ \E resp \in ApiResponses : LookupResolve(1, resp)

\* _get_emergency_number has returned: `if emergency_number:
\* emergency_numbers.add(emergency_number)`.  The TypeError of set.add is
\* caught by generate_enrichments, which returns None.
EnrichTakeNumber ==
    /\ enr.pc = "lookup"
    /\ thr[1].pc = "done"
    /\ LET emergency_number == thr[1].ret
           counted == [enr EXCEPT
                          !.lookups[enr.code] = @ + 1,
                          !.calls[enr.code] =
                              IF thr[1].source = "cache" THEN @ ELSE @ + 1,
                          !.failed[enr.code] =
                              IF thr[1].api \in ApiFailureKinds THEN @ + 1 ELSE @,
                          !.fallbacks[enr.code] =
                              IF thr[1].source = "fallback" THEN @ + 1 ELSE @]
       IN  IF ~Truthy(emergency_number)
           THEN enr' = [counted EXCEPT !.pc = "cities"]
           ELSE IF Unhashable(emergency_number)
           THEN enr' = [counted EXCEPT !.pc = "done", !.raised = "TypeError",
                                       !.ret = "none"]
           ELSE enr' = [counted EXCEPT !.pc = "cities",
                                       !.numbers = @ \cup {emergency_number}]
    /\ thr' = [thr EXCEPT ![1] = ThrIdle]
    /\ UNCHANGED <<cls, con, ent, emergency_cache, api_calls, req>>

\* The loop is over: _get_emergency_numbers returns, generate_enrichments
\* stores the numbers, and _generate_creative_enrichments runs up to the
\* call of the recommendation service.  The TypeError of sorted() is caught
\* by generate_enrichments, which returns None.
EnrichCreative ==
    /\ enr.pc = "cities"
    /\ enr.todo = <<>>
    /\ IF SortRaises(enr.numbers)
       THEN enr' = [enr EXCEPT !.pc = "done", !.raised = "TypeError",
                               !.ret = "none"]
       ELSE LET emergency_numbers == emergency_numbers_result(enr.numbers)
            IN  enr' = [enr EXCEPT !.pc = "recommending",
                                   !.bag = put_if(<<>>, "local_emergency_numbers",
                                                  ~emergency_numbers.null,
                                                  emergency_numbers),
                                   !.creative = creative_local(enr.text),
                                   !.rec_calls = @ + 1]
    /\ UNCHANGED <<cls, con, ent, emergency_cache, thr, api_calls, req>>

\* The recommendation service answers or fails;
\* _generate_creative_enrichments returns and generate_enrichments returns
\* `enrichments if enrichments else None`.
EnrichRecommend ==
    /\ enr.pc = "recommending"
    /\ \E rec \in RecOutcomes :
          LET support_recommendations == generate_support_recommendations(rec)
              creative_enrichments ==
                  put_if(enr.creative, "support_recommendations",
                         ~support_recommendations.null, support_recommendations)
              enrichments ==
                  IF creative_enrichments # <<>>
                  THEN bag_update(enr.bag, creative_enrichments)
                  ELSE enr.bag
          IN  enr' = [enr EXCEPT !.pc = "done", !.rec = rec.kind,
                                 !.bag = enrichments,
                                 !.ret = IF enrichments # <<>> THEN "bag" ELSE "none"]
    /\ UNCHANGED <<cls, con, ent, emergency_cache, thr, api_calls, req>>

\* The bag (or None) is handed to normalize_message.
EnrichReturn ==
    /\ enr.pc = "done"
    /\ enr' = EnrIdle
    /\ UNCHANGED <<cls, con, ent, emergency_cache, thr, api_calls, req>>

NextEnrich ==
    \/ EnrichStart
    \/ EnrichCity
    \/ EnrichLookupStart
    \/ EnrichLookupResolve
    \/ EnrichTakeNumber
    \/ EnrichCreative
    \/ EnrichRecommend
    \/ EnrichReturn

(***************************************************************************)
(* The endpoint: POST /normalize.  FastAPI builds the MessageInput from    *)
(* the body (a validation error is answered 422 before normalize_message   *)
(* runs), then normalize_message calls the four services in turn.  A raw   *)
(* text is a sequence of characters.                                       *)
(***************************************************************************)
\* The longest raw text of the model.
MaxRawLen == 4

Whitespace == {" ", "\t"}

RawChars == Whitespace \cup {"a"}

RawTexts == UNION {[1..n -> RawChars] : n \in 0..MaxRawLen}

\* Field(..., min_length=1, max_length=5000)
min_length == 1

max_length == 5000

RECURSIVE LStrip(_)
\* The text without its leading whitespace.
LStrip(v) ==
    IF v # <<>> /\ Head(v) \in Whitespace THEN LStrip(Tail(v)) ELSE v

RECURSIVE RStrip(_)
\* The text without its trailing whitespace.
RStrip(v) ==
    IF v # <<>> /\ v[Len(v)] \in Whitespace THEN RStrip(SubSeq(v, 1, Len(v) - 1)) ELSE v

\* v.strip()
Strip(v) == RStrip(LStrip(v))

\* MessageInput.validate_text: raises ValueError for a blank text.  The
\* method carries no validator decorator, so pydantic never calls it.
validate_text(v) ==
    IF Strip(v) = <<>> THEN [raises |-> TRUE, value |-> v]
    ELSE [raises |-> FALSE, value |-> Strip(v)]

\* The validation of MessageInput(text=...): the constraints of the Field.
MessageInput(text) ==
    /\ Len(text) >= min_length
    /\ Len(text) <= max_length

\* The message identifiers of the requests.
MessageIds == {"m1", "m2"}

\* str(e) of the exceptions that reach the handler of normalize_message.
ExceptionTexts == {"maximum recursion depth exceeded", "division by zero"}

\* The content of HTTPException(status_code=500, detail=str(e)), as the
\* sequence of its parts.
http_exception_detail(message_id, e) == <<e>>

\* POST /normalize arrives: the body is validated, and normalize_message
\* starts only with a valid MessageInput.
ReceiveMessage ==
    /\ req.pc = "idle"
    /\ \E message_id \in MessageIds, text \in RawTexts :
          IF MessageInput(text)
          THEN req' = [ReqIdle EXCEPT !.pc = "classify", !.text = text,
                                      !.message_id = message_id]
          ELSE req' = [ReqIdle EXCEPT !.pc = "done", !.text = text, !.status = 422,
                                      !.message_id = message_id]
    /\ UNCHANGED <<cls, con, ent, emergency_cache, thr, api_calls, enr>>

\* classification_service.classify_message(message.text)
CallClassifier ==
    /\ req.pc = "classify"
    /\ req' = [req EXCEPT !.pc = "contact", !.invoked = @ \cup {"classifier"}]
    /\ UNCHANGED <<cls, con, ent, emergency_cache, thr, api_calls, enr>>

\* contact_service.extract_contact(message.text)
CallContactExtractor ==
    /\ req.pc = "contact"
    /\ req' = [req EXCEPT !.pc = "entities", !.invoked = @ \cup {"contact"}]
    /\ UNCHANGED <<cls, con, ent, emergency_cache, thr, api_calls, enr>>

\* entity_service.extract_entities(message.text)
CallEntityExtractor ==
    /\ req.pc = "entities"
    /\ req' = [req EXCEPT !.pc = "enrich", !.invoked = @ \cup {"entities"}]
    /\ UNCHANGED <<cls, con, ent, emergency_cache, thr, api_calls, enr>>

\* enrichment_service.generate_enrichments(...), and the response.
CallEnrichment ==
    /\ req.pc = "enrich"
    /\ req' = [req EXCEPT !.pc = "done", !.invoked = @ \cup {"enrichment"},
                          !.status = 200]
    /\ UNCHANGED <<cls, con, ent, emergency_cache, thr, api_calls, enr>>

\* An exception reaches `except Exception as e` of normalize_message from
\* one of the steps of the try block: it is logged and HTTPException(500)
\* is raised.
UnexpectedException ==
    /\ req.pc \in {"classify", "contact", "entities", "enrich"}
    /\ \E e \in ExceptionTexts :
          req' = [req EXCEPT !.pc = "done", !.status = 500, !.exc = e,
                             !.detail = http_exception_detail(req.message_id, e)]
    /\ UNCHANGED <<cls, con, ent, emergency_cache, thr, api_calls, enr>>

\* The response is sent.
RequestDone ==
    /\ req.pc = "done"
    /\ req' = ReqIdle
    /\ UNCHANGED <<cls, con, ent, emergency_cache, thr, api_calls, enr>>

NextPipeline ==
    \/ ReceiveMessage
    \/ CallClassifier
    \/ CallContactExtractor
    \/ CallEntityExtractor
    \/ CallEnrichment
    \/ UnexpectedException
    \/ RequestDone

(***************************************************************************)
(* The specifications.                                                     *)
(***************************************************************************)
Init ==
    /\ cls = ClsIdle
    /\ con = ConIdle
    /\ ent = EntIdle
    /\ emergency_cache = <<>>
    /\ thr = [t \in Threads |-> ThrIdle]
    /\ api_calls = [c \in Codes |-> 0]
    /\ enr = EnrIdle
    /\ req = ReqIdle

SpecClassify == Init /\ [][NextClassify]_vars

SpecCombine == Init /\ [][NextCombine]_vars

SpecContact == Init /\ [][NextContact]_vars

SpecNamePatterns == Init /\ [][NextNamePatterns]_vars

SpecEntities == Init /\ [][NextEntities]_vars

SpecCache == Init /\ [][NextCache]_vars

SpecEnrich == Init /\ [][NextEnrich]_vars

SpecPipeline == Init /\ [][NextPipeline]_vars

\* The services that call external services, one call at a time: the
\* classifier and the entity extractor (which share no state with the
\* others) before the first enrichment, then the enrichment engine with
\* its cache.
NextServices ==
    \/ ent.pc = "idle" /\ enr.pc = "idle" /\ emergency_cache = <<>> /\ NextClassify
    \/ cls.pc = "idle" /\ enr.pc = "idle" /\ emergency_cache = <<>> /\ NextEntities
    \/ cls.pc = "idle" /\ ent.pc = "idle" /\ NextEnrich

SpecServices == Init /\ [][NextServices]_vars

\* The four services side by side.
Next ==
    NextClassify \/ NextContact \/ NextEntities \/ NextCache \/ NextEnrich
    \/ NextPipeline \/ NextNamePatterns

Spec == Init /\ [][Next]_vars

(***************************************************************************)
(* Properties of the classifier (SpecClassify).                            *)
(***************************************************************************)
\* The text contains at least one keyword of high_risk_keywords.
HasHighRiskKeyword(text) ==
    \E k \in 1..Len(high_risk_keywords) :
        KeywordIn(high_risk_keywords[k], LowerText(text))

\* The text contains at least one keyword of urgent_keywords.
HasUrgentKeyword(text) ==
    \E k \in 1..Len(urgent_keywords) :
        KeywordIn(urgent_keywords[k], LowerText(text))

high_risk_texts == {text \in ClsTexts : HasHighRiskKeyword(text)} \cup {}

urgent_texts == {text \in ClsTexts : HasUrgentKeyword(text)} \cup {}

\* C1: for every text with at least one HIGH_RISK keyword, classify_message
\* returns HIGH_RISK, whatever the external vote is, whether or not the
\* external call fails, and whatever URGENT keywords the text has.
C1_HighRiskDominates ==
    (cls.pc = "done" /\ cls.text \in high_risk_texts)
        => (~cls.result.raised /\ cls.result.category = HIGH_RISK)

\* A text with a HIGH_RISK keyword and an URGENT keyword, on which the
\* external service votes BASE with confidence 0.95, is classified HIGH_RISK.
C1_Witness ==
    /\ cls.pc = "done"
    /\ cls.llm.kind = "ok"
    /\ cls.llm.category = BASE
    /\ cls.llm.confidence = 95
    /\ cls.text \in high_risk_texts
    /\ cls.text \in urgent_texts
    /\ cls.result.category = HIGH_RISK

\* C2: classify_message never raises, and whenever the external path fails
\* it returns the category and the confidence of the rule engine with the
\* reasoning that states the fallback.
C2_FallbackToRules ==
    cls.pc = "done" =>
        /\ ~cls.result.raised
        /\ cls.llm.kind \in LlmFailureKinds =>
              /\ cls.result.category = cls.rule.category
              /\ cls.result.confidence = cls.rule.confidence
              /\ cls.result.reasoning = FallbackReasoning

\* The external call times out on a text that the rule engine votes URGENT:
\* the result is the rule vote with the fallback reasoning.
C2_Witness ==
    /\ cls.pc = "done"
    /\ cls.llm.kind = "timeout"
    /\ cls.rule.category = URGENT
    /\ cls.result.category = URGENT
    /\ cls.result.confidence = cls.rule.confidence
    /\ cls.result.reasoning = FallbackReasoning

\* The confidence of the side that votes URGENT.
UrgentVoterConfidence ==
    IF cls.llm.category = URGENT THEN cls.llm.confidence ELSE cls.rule.confidence

\* C3: when one vote is URGENT and the other BASE, the merged result is
\* URGENT with the confidence of the URGENT voter if and only if that
\* confidence is greater than 0.6, and else BASE with confidence 0.6.
C3_UrgentVersusBase ==
    (/\ cls.pc = "done"
     /\ cls.llm.kind = "ok"
     /\ {cls.llm.category, cls.rule.category} = {URGENT, BASE})
        => /\ (UrgentVoterConfidence > 60) <=> (cls.merged.category = URGENT)
           /\ cls.merged.category = URGENT =>
                 cls.merged.confidence = UrgentVoterConfidence
           /\ cls.merged.category # URGENT =>
                 (cls.merged.category = BASE /\ cls.merged.confidence = 60)

\* The rule vote BASE(0.7) and the external vote URGENT(0.55) merge to BASE
\* with confidence 0.6.
C3_Witness ==
    /\ cls.pc = "done"
    /\ cls.llm.kind = "ok"
    /\ cls.llm.category = URGENT
    /\ cls.llm.confidence = 55
    /\ cls.rule = [category |-> BASE, confidence |-> 70]
    /\ cls.merged.category = BASE
    /\ cls.merged.confidence = 60

\* C4: when the votes disagree and one of them is HIGH_RISK, the merged
\* category is HIGH_RISK and the merged confidence is the confidence of the
\* side that voted HIGH_RISK.
C4_HighRiskVote ==
    (/\ cls.pc = "done"
     /\ cls.llm.kind = "ok"
     /\ cls.llm.category # cls.rule.category
     /\ HIGH_RISK \in {cls.llm.category, cls.rule.category})
        => /\ cls.merged.category = HIGH_RISK
           /\ cls.merged.confidence =
                 (IF cls.rule.category = HIGH_RISK THEN cls.rule.confidence
                  ELSE cls.llm.confidence)

\* The rule engine votes HIGH_RISK(0.7) and the external service BASE(0.95):
\* the merged vote is HIGH_RISK(0.7).
C4_Witness ==
    /\ cls.pc = "done"
    /\ cls.llm.kind = "ok"
    /\ cls.llm.category = BASE
    /\ cls.llm.confidence = 95
    /\ cls.rule = [category |-> HIGH_RISK, confidence |-> 70]
    /\ cls.merged.category = HIGH_RISK
    /\ cls.merged.confidence = 70

\* C5: when both votes have the same category, the merged result has that
\* category and the greater of the two confidences.
C5_Agreement ==
    (/\ cls.pc = "done"
     /\ cls.llm.kind = "ok"
     /\ cls.llm.category = cls.rule.category)
        => /\ cls.merged.category = cls.rule.category
           /\ cls.merged.confidence \in {cls.llm.confidence, cls.rule.confidence}
           /\ cls.merged.confidence >= cls.llm.confidence
           /\ cls.merged.confidence >= cls.rule.confidence

\* Both votes are BASE, the external one with the lower confidence 0.55:
\* the merged confidence is the 0.7 of the rule vote.
C5_Witness ==
    /\ cls.pc = "done"
    /\ cls.llm.kind = "ok"
    /\ cls.llm.category = BASE
    /\ cls.llm.confidence = 55
    /\ cls.rule = [category |-> BASE, confidence |-> 70]
    /\ cls.merged.category = BASE
    /\ cls.merged.confidence = 70

(***************************************************************************)
(* Properties of the contact extractor (SpecContact).                      *)
(***************************************************************************)
\* Every one of first_name, last_name, email, phone and zip is empty.
AllPiecesEmpty ==
    /\ ~Truthy(con.first)
    /\ ~Truthy(con.last)
    /\ ~Truthy(con.email)
    /\ ~Truthy(con.phone)
    /\ ~Truthy(con.zip)

\* C6: extract_contact returns null if and only if every one of first_name,
\* last_name, email, phone and zip is empty, and it never returns a record
\* in which all five fields are empty.
C6_NullIffAllEmpty ==
    con.pc = "done" =>
        /\ con.ret.null <=> AllPiecesEmpty
        /\ ~con.ret.null =>
              \/ Truthy(con.ret.contact.first_name)
              \/ Truthy(con.ret.contact.last_name)
              \/ Truthy(con.ret.contact.email)
              \/ Truthy(con.ret.contact.phone)
              \/ Truthy(con.ret.contact.zip)

\* The zip is the only piece found in the text: the record is returned.
C6_Witness ==
    /\ con.pc = "done"
    /\ con.zip = "94105"
    /\ ~Truthy(con.first)
    /\ ~Truthy(con.last)
    /\ ~Truthy(con.email)
    /\ ~Truthy(con.phone)
    /\ ~con.ret.null
    /\ con.ret.contact.zip = "94105"

(***************************************************************************)
(* Properties of the entity extractor (SpecEntities).                      *)
(***************************************************************************)
\* No two elements of the list have equal (type, lowercase(value)).
NoDuplicateKeys(list) ==
    \A i, j \in 1..Len(list) :
        (i # j) =>
            ~(/\ list[i].type = list[j].type
              /\ LowerValue(list[i].value) = LowerValue(list[j].value))

\* The positions of the candidates that no earlier candidate duplicates.
FirstOccurrences(candidates) ==
    {i \in 1..Len(candidates) :
        \A j \in 1..(i - 1) :
            \/ candidates[j].type # candidates[i].type
            \/ LowerValue(candidates[j].value) # LowerValue(candidates[i].value)}

\* The list is the candidates at their first occurrences, in their order.
IsFirstOccurrenceList(list, candidates) ==
    LET kept == FirstOccurrences(candidates)
    IN  /\ Len(list) = Cardinality(kept)
        /\ \A k \in 1..Len(list) :
              \E i \in kept :
                  /\ Cardinality({j \in kept : j <= i}) = k
                  /\ list[k] = candidates[i]

\* C7: the list that extract_entities returns has no two elements with
\* equal (type, lowercase(value)); it is the candidate list of the path
\* taken with every later duplicate dropped, in the order of the first
\* occurrences; equal values of different types are both kept.
C7_StableDedup ==
    (ent.pc = "done" /\ ent.returned = "list")
        => /\ NoDuplicateKeys(ent.ret)
           /\ IsFirstOccurrenceList(ent.ret, ent.entities)

\* The candidates city Paris, hotel Paris, city PARIS are returned as city
\* Paris, hotel Paris.
C7_Witness ==
    /\ ent.pc = "done"
    /\ ent.entities = << [type |-> CITY, value |-> "Paris"],
                         [type |-> HOTEL, value |-> "Paris"],
                         [type |-> CITY, value |-> "PARIS"] >>
    /\ ent.ret = << [type |-> CITY, value |-> "Paris"],
                    [type |-> HOTEL, value |-> "Paris"] >>

\* C8: the fallback path runs only if the primary call failed, and when
\* the primary call succeeds its result is the one that is deduplicated
\* and returned.
C8_FallbackOnlyOnFailure ==
    /\ ent.fallback_runs > 0 => ent.primary \in PrimaryFailureKinds
    /\ (ent.pc = "done" /\ ent.primary = "ok") => ent.fallback_runs = 0

\* C9: extract_entities always returns a list, never null and never an
\* exception; when the primary call fails and the fallback path fails too
\* or finds nothing, the list is empty.
C9_AlwaysAList ==
    ent.pc = "done" =>
        /\ ent.returned = "list"
        /\ (/\ ent.primary \in PrimaryFailureKinds
            /\ \/ ent.fallback = "raises"
               \/ ent.fallback = "ok" /\ ent.entities = <<>>)
              => ent.ret = <<>>

\* The primary call times out and the fallback path raises: the empty list
\* is returned.
C9_Witness ==
    /\ ent.pc = "done"
    /\ ent.primary = "timeout"
    /\ ent.fallback = "raises"
    /\ ent.returned = "list"
    /\ ent.ret = <<>>

C11_AppendOnly ==
    [][\A c \in DOMAIN emergency_cache :
          /\ c \in DOMAIN emergency_cache'
          /\ emergency_cache'[c] = emergency_cache[c]
      ]_vars

\* C11 as amended: an entry is never removed, and its value changes only
\* in the write of a lookup of the same code that was waiting for its
\* external answer (it had missed the cache), to the value this lookup
\* returns: last writer wins.
C11_LastWriterWins ==
    [][\A c \in DOMAIN emergency_cache :
          /\ c \in DOMAIN emergency_cache'
          /\ emergency_cache'[c] # emergency_cache[c] =>
                \E t \in Threads :
                    /\ thr[t].pc = "calling"
                    /\ thr[t].code = c
                    /\ thr'[t].pc = "done"
                    /\ thr'[t].ret = emergency_cache'[c]
      ]_vars

\* Two lookups of JP missed the cache; one stored and returned "110" from
\* the payload, the other then stored the absent fallback over it.
C11_Witness ==
    \E t, u \in Threads :
        /\ t # u
        /\ thr[t] = [pc |-> "done", code |-> "JP", ret |-> "110",
                     source |-> "api", member_112 |-> FALSE, api |-> "ok"]
        /\ thr[u].pc = "done"
        /\ thr[u].code = "JP"
        /\ thr[u].source = "fallback"
        /\ emergency_cache["JP"] = NoneVal

(***************************************************************************)
(* Properties of the enrichment engine (SpecEnrich).                       *)
(***************************************************************************)
Moods == {"negative", "positive", "stressed", "neutral"}

\* The fraction lies in [0, 1].
InUnitInterval(f) == f.den > 0 /\ f.num >= 0 /\ f.num <= f.den

\* C12: every bag that generate_enrichments returns has the key
\* sentiment_analysis, with a mood of the four and an intensity in [0, 1],
\* whatever the text, the entities and the outcomes of the lookups and of
\* the recommendation service; and a bag is returned unless set.add or
\* sorted() raised on the numbers of a payload.
C12_SentimentAlwaysPresent ==
    enr.pc = "done" =>
        /\ enr.ret = "bag" =>
              /\ "sentiment_analysis" \in DOMAIN enr.bag
              /\ ~enr.bag["sentiment_analysis"].null
              /\ enr.bag["sentiment_analysis"].val.mood \in Moods
              /\ InUnitInterval(enr.bag["sentiment_analysis"].val.intensity)
        /\ enr.ret # "bag" => enr.raised = "TypeError"

\* A bag is returned although the lookup of the request fell back and the
\* recommendation service timed out: it holds the negative mood of
\* "terrible" with intensity 1/3.
C12_Witness ==
    /\ enr.pc = "done"
    /\ enr.ret = "bag"
    /\ enr.text = <<"terrible">>
    /\ enr.fallbacks["GB"] = 1
    /\ enr.rec = "timeout"
    /\ enr.bag["sentiment_analysis"].val =
          [mood |-> "negative", intensity |-> [num |-> 1, den |-> 3]]

\* The list is strictly increasing in Python's order of its elements.
StrictlySorted(list) ==
    \A i, j \in 1..Len(list) : i < j => LessThan(list[i], list[j])

\* C13: the value of local_emergency_numbers is a sorted list without
\* duplicates of exactly the numbers resolved for the request's cities, and
\* the key is absent (not present with an empty list or null) when no city
\* resolved to a number.
C13_SortedNumbers ==
    (enr.pc = "done" /\ enr.ret = "bag") =>
        IF enr.numbers = {}
        THEN "local_emergency_numbers" \notin DOMAIN enr.bag
        ELSE /\ "local_emergency_numbers" \in DOMAIN enr.bag
             /\ ~enr.bag["local_emergency_numbers"].null
             /\ LET list == enr.bag["local_emergency_numbers"].val
                IN  /\ list # <<>>
                    /\ StrictlySorted(list)
                    /\ {list[i] : i \in 1..Len(list)} = enr.numbers

\* Two cities resolve to "999" (fallback table) and "110" (payload): the
\* list is ["110", "999"].
C13_Witness ==
    /\ enr.pc = "done"
    /\ enr.ret = "bag"
    /\ enr.cities = 2
    /\ enr.numbers = {"999", "110"}
    /\ enr.bag["local_emergency_numbers"].val = <<"110", "999">>

\* The request has a city, none of its cities resolved to a number, and
\* the key is absent.
C13_WitnessOmitted ==
    /\ enr.pc = "done"
    /\ enr.ret = "bag"
    /\ enr.cities > 0
    /\ enr.numbers = {}
    /\ "local_emergency_numbers" \notin DOMAIN enr.bag

EnrichmentKeys ==
    {"local_emergency_numbers", "sentiment_analysis", "travel_phase",
     "disruption_type", "support_recommendations"}

\* C16: every key of a returned bag is one of the five, and no key is
\* mapped to null: an enrichment that does not apply or failed is absent.
C16_KeysAndNoNull ==
    (enr.pc = "done" /\ enr.ret = "bag") =>
        /\ DOMAIN enr.bag \subseteq EnrichmentKeys
        /\ \A k \in DOMAIN enr.bag : ~enr.bag[k].null
        /\ enr.rec \in RecFailureKinds => "support_recommendations" \notin DOMAIN enr.bag
        /\ detect_travel_phase(enr.text) = NoneVal => "travel_phase" \notin DOMAIN enr.bag
        /\ detect_travel_disruption(enr.text) = NoneVal
              => "disruption_type" \notin DOMAIN enr.bag

\* The recommendation service answers non-JSON for a text without phase or
\* disruption and no city: the bag has the sentiment key alone.
C16_Witness ==
    /\ enr.pc = "done"
    /\ enr.ret = "bag"
    /\ enr.rec = "non_json"
    /\ enr.text = <<"urgent">>
    /\ DOMAIN enr.bag = {"sentiment_analysis"}

(***************************************************************************)
(* Properties of the endpoint (SpecPipeline).                              *)
(***************************************************************************)
\* The text is empty or whitespace only.
IsBlank(text) == \A i \in 1..Len(text) : text[i] \in Whitespace

\* C14: a message whose text is empty or only whitespace is rejected by the
\* validation before any of the four services is invoked.
C14_BlankRejected ==
    (req.pc # "idle" /\ IsBlank(req.text)) =>
        /\ req.invoked = {}
        /\ req.pc = "done"
        /\ req.status = 422

(***************************************************************************)
(* Properties of the external calls (SpecServices).                        *)
(***************************************************************************)
\* C15: within one request the classifier's external call, the entity
\* extractor's primary call, the recommendation call and the external
\* lookup of each country code happen at most once, and when such a call
\* has failed its local fallback has run exactly once (the recommendation
\* call has none).
C15_NoRetry ==
    /\ cls.llm_calls <= 1
    /\ cls.fallback_runs <= 1
    /\ cls.pc = "done" =>
          /\ cls.llm_calls = 1
          /\ cls.llm.kind \in LlmFailureKinds => cls.fallback_runs = 1
    /\ ent.primary_calls <= 1
    /\ ent.fallback_runs <= 1
    /\ ent.pc = "done" =>
          /\ ent.primary_calls = 1
          /\ ent.primary \in PrimaryFailureKinds => ent.fallback_runs = 1
    /\ enr.rec_calls <= 1
    /\ \A c \in Codes :
          /\ enr.calls[c] <= 1
          /\ enr.fallbacks[c] <= 1
          /\ enr.failed[c] > 0 => (enr.calls[c] = 1 /\ enr.fallbacks[c] = 1)

\* A request with two cities of JP: the external lookup of JP failed once,
\* the fallback table was consulted once, the second city was answered by
\* the cache, and the recommendation call timed out after its one call.
C15_Witness ==
    /\ enr.pc = "done"
    /\ enr.lookups["JP"] = 2
    /\ enr.calls["JP"] = 1
    /\ enr.failed["JP"] = 1
    /\ enr.fallbacks["JP"] = 1
    /\ enr.rec_calls = 1
    /\ enr.rec = "timeout"

(***************************************************************************)
(* Further properties of the emergency-number cache (SpecCache).           *)
(***************************************************************************)
\* C17: when a lookup that missed the cache gets a successful answer whose
\* payload has Member_112 set, it returns "112" and stores "112" under the
\* code, whatever the fallback table holds for the code.
C17_Member112 ==
    [][\A t \in Threads :
          (/\ thr[t].pc = "calling"
           /\ thr'[t].pc = "done"
           /\ thr'[t].api = "ok"
           /\ thr'[t].member_112)
             => /\ thr'[t].ret = "112"
                /\ emergency_cache'[thr[t].code] = "112"
      ]_vars

(***************************************************************************)
(* Properties of the merge on its own (SpecCombine).                       *)
(***************************************************************************)
\* The fixed texts of the last rule of the merge ("other disagreements").
Rule4Reasonings == {"LLM higher confidence: ", "Rules higher confidence"}

\* The fixed texts of rules 1, 2 and 3.
Rule123Reasonings ==
    {"LLM + Rules agree: ", "Rules detected high-risk (overrides LLM)",
     "LLM detected high-risk: ", "LLM detected urgency: ",
     "Rules detected time-sensitive urgency",
     "Low confidence urgency, defaulting to base"}

\* C18: the last rule of the merge (the higher confidence wins, a tie goes
\* to the rule vote) is unreachable: for every pair of votes the result is
\* the one of rule 1, 2 or 3.
C18_Rule4Unreachable ==
    cls.pc = "merged" =>
        /\ cls.merged.reasoning[1] \notin Rule4Reasonings
        /\ cls.merged.reasoning[1] \in Rule123Reasonings

\* The votes (BASE, 0.95) of the rules and (URGENT, 0.55) of the service
\* disagree, and the lower-confidence rule of the merge, not the higher
\* confidence, decides: BASE at 0.6.
C18_Witness ==
    /\ cls.pc = "merged"
    /\ cls.llm.category = URGENT
    /\ cls.llm.confidence = 55
    /\ cls.rule = [category |-> BASE, confidence |-> 95]
    /\ cls.merged.category = BASE
    /\ cls.merged.confidence = 60
    /\ cls.merged.reasoning[1] = "Low confidence urgency, defaulting to base"

(***************************************************************************)
(* Further properties of the contact extractor (SpecContact).              *)
(***************************************************************************)
\* C19: when the phone library is unavailable or finds no valid number,
\* the phone is the first run of exactly ten digits of the text stripped of
\* its non-digits, formatted DDD-DDD-DDDD, and absent when there is no such
\* run.  The stripped text is one run of digits: it is a run of exactly ten
\* when it has ten digits; for a longer one the phone is absent or, reading
\* "first run" as the first ten digits, made of those.
C19_PhoneFallback ==
    (con.pc = "done" /\ con.lib \in {"unavailable", "no_valid_number"}) =>
        IF Len(con.digits) < 10 THEN con.phone = NoneVal
        ELSE IF Len(con.digits) = 10 THEN con.phone = FormatPhone(con.digits)
        ELSE con.phone \in {NoneVal, FormatPhone(SubSeq(con.digits, 1, 10))}

(***************************************************************************)
(* Further properties of the rule engine (SpecClassify).                   *)
(***************************************************************************)
\* The text has a time window "in N hour" or "in N hours", N a number.
HasInNHours(text) ==
    \E i \in 1..Len(text) :
        /\ i + 2 <= Len(text)
        /\ Lower(text[i]) = "in"
        /\ IsNumber(text[i + 1])
        /\ Lower(text[i + 2]) \in {"hour", "hours"}

in_n_hours_texts == {text \in ClsTexts : HasInNHours(text)} \cup {}

\* C20: for a text without HIGH_RISK keyword that has a time window
\* "in N hour" or "in N hours", the rule engine counts a time-pattern match
\* and votes URGENT.
C20_InNHoursIsUrgent ==
    (/\ cls.pc \in {"llm", "done"}
     /\ cls.text \in in_n_hours_texts
     /\ cls.text \notin high_risk_texts)
        => /\ CountTimePatterns(LowerText(cls.text)) > 0
           /\ cls.rule.category = URGENT

(***************************************************************************)
(* The priority of the rule engine (SpecClassify).                         *)
(***************************************************************************)
\* h: the number of HIGH_RISK keywords in the text of the call.
HighRiskCount == CountKeywords(high_risk_keywords, LowerText(cls.text))

\* u: urgent-keyword matches plus time-pattern matches in the text of the call.
UrgentCount ==
    CountKeywords(urgent_keywords, LowerText(cls.text))
        + CountTimePatterns(LowerText(cls.text))

\* C21: right after the rule engine has voted, the rule vote is (HIGH_RISK, min(0.9, 0.6 + 0.1h)) when h > 0, else
\* (URGENT, min(0.8, 0.5 + 0.1u)) when u > 0, else (BASE, 0.7); the urgent
\* indicators do not influence the vote when h > 0.
C21_RulePriority ==
    cls.pc = "llm" =>
        LET h == HighRiskCount
        IN  IF h > 0
            THEN /\ cls.rule.category = HIGH_RISK
                 /\ cls.rule.confidence = 10 * Min(9, 6 + h)
            ELSE LET u == UrgentCount
                 IN  IF u > 0
                     THEN /\ cls.rule.category = URGENT
                          /\ cls.rule.confidence = 10 * Min(8, 5 + u)
                     ELSE /\ cls.rule.category = BASE
                          /\ cls.rule.confidence = 70

\* A text with one HIGH_RISK keyword and urgent indicators votes (HIGH_RISK, 0.7),
\* and the cap 0.9 is reached by a text with four HIGH_RISK keywords.
C21_Witness ==
    /\ cls.pc = "llm"
    /\ HighRiskCount = 1
    /\ UrgentCount > 0
    /\ cls.rule = [category |-> HIGH_RISK, confidence |-> 70]

C21_WitnessCap ==
    /\ cls.pc = "llm"
    /\ HighRiskCount = 4
    /\ cls.rule = [category |-> HIGH_RISK, confidence |-> 90]

(***************************************************************************)
(* The cached absence of a number, and concurrent resolutions of one code  *)
(* (SpecCache).                                                            *)
(***************************************************************************)
\* The cache holds, under the code c, that there is no number.
AbsenceCached(cache, c) == in_cache(cache, c) /\ cache[c] = NoneVal

\* In this step the lookup of thread t resolves after its external lookup.
Resolves(t) == thr[t].pc = "calling" /\ thr'[t].pc = "done"

\* In this step thread t begins a lookup of the code c.
Begins(t, c) == thr[t].pc = "idle" /\ thr'[t].pc # "idle" /\ thr'[t].code = c

\* A resolution to no number stores the absence; once it is stored, no
\* external lookup of the code begins and a lookup of the code returns no
\* number from the cache.
AbsenceIsCachedAndServed ==
    \A t \in Threads :
        /\ (Resolves(t) /\ thr'[t].ret = NoneVal)
              => AbsenceCached(emergency_cache', thr[t].code)
        /\ \A c \in Codes :
              AbsenceCached(emergency_cache, c) =>
                  /\ api_calls'[c] = api_calls[c]
                  /\ in_cache(emergency_cache', c)
                  /\ Begins(t, c) =>
                        /\ thr'[t].pc = "done"
                        /\ thr'[t].source = "cache"
                        /\ thr'[t].ret = NoneVal

\* C22 (as stated): an absence that is cached under a code stays: every later
\* lookup of the code returns no number and calls no external lookup, for
\* the lifetime of the process.
C22_AbsenceIsFinal ==
    [][/\ AbsenceIsCachedAndServed
       /\ \A c \in Codes :
             AbsenceCached(emergency_cache, c) => AbsenceCached(emergency_cache', c)]_vars

\* C22 (amended): a resolution to no number caches the absence; from then on
\* no external lookup of the code begins and a lookup returns the cached
\* absence, and the absence is replaced only by the write of a concurrent
\* lookup of the code that had missed the cache before, with its number.
C22_AbsenceCachedUnlessOverwritten ==
    [][/\ AbsenceIsCachedAndServed
       /\ \A c \in Codes :
             (AbsenceCached(emergency_cache, c) /\ ~AbsenceCached(emergency_cache', c))
                 => \E w \in Threads :
                       /\ Resolves(w)
                       /\ thr[w].code = c
                       /\ emergency_cache'[c] = thr'[w].ret]_vars

\* A lookup has returned the cached absence of a number for JP.
C22_Witness ==
    /\ AbsenceCached(emergency_cache, "JP")
    /\ \E t \in Threads :
          /\ thr[t].pc = "done"
          /\ thr[t].code = "JP"
          /\ thr[t].source = "cache"
          /\ thr[t].ret = NoneVal
    /\ api_calls["JP"] = 1

\* The two threads have resolved the same code, each after a lookup of its own.
BothResolved(c) ==
    \A t \in Threads :
        /\ thr[t].pc = "done"
        /\ thr[t].code = c
        /\ thr[t].source \in {"api", "fallback"}

\* C23 (as stated): when two requests have concurrently resolved the same
\* uncached code, both have a number and the cache entry of the code holds
\* the value one of them wrote.
C23_BothResolveNumber ==
    \A c \in Codes :
        BothResolved(c) =>
            /\ \A t \in Threads : Truthy(thr[t].ret)
            /\ in_cache(emergency_cache, c)
            /\ \E t \in Threads : emergency_cache[c] = thr[t].ret

\* C23 (amended): a lookup performs at most one external lookup, also when
\* another request resolves the same uncached code at the same time; each
\* request completes with the value of its own resolution (the number of the
\* payload, else the one of the fallback table, which may be absent); and
\* each resolution writes its value under the code, so that the entry holds
\* the value of the last writer.
C23_LastWriterWins ==
    [][\A t \in Threads :
          /\ thr[t].pc = "calling" =>
                /\ thr'[t].pc \in {"calling", "done"}
                /\ thr'[t].code = thr[t].code
          /\ api_calls' # api_calls =>
                \E s \in Threads :
                    /\ thr[s].pc = "idle" /\ thr'[s].pc = "calling"
                    /\ ~in_cache(emergency_cache, thr'[s].code)
                    /\ api_calls' = [api_calls EXCEPT ![thr'[s].code] = @ + 1]
          /\ Resolves(t) =>
                /\ thr'[t].source \in {"api", "fallback"}
                /\ thr'[t].source = "fallback"
                      => thr'[t].ret = fallback_numbers(thr[t].code)
                /\ in_cache(emergency_cache', thr[t].code)
                /\ emergency_cache'[thr[t].code] = thr'[t].ret
                /\ \A c \in DOMAIN emergency_cache \ {thr[t].code} :
                      in_cache(emergency_cache', c)
                          /\ emergency_cache'[c] = emergency_cache[c]]_vars

\* Both requests looked GB up on their own and resolved different numbers;
\* the entry holds the one of the second writer.
C23_Witness ==
    /\ BothResolved("GB")
    /\ api_calls["GB"] = 2
    /\ thr[1].ret = "999"
    /\ thr[1].source = "fallback"
    /\ thr[2].ret = "112"
    /\ thr[2].source = "api"
    /\ emergency_cache["GB"] = "112"

(***************************************************************************)
(* The tiers of the name extraction (SpecContact).                         *)
(***************************************************************************)
NoNameYield == <<NoneVal, NoneVal>>

\* A tier yields something: a non-empty first or last name.
YieldsName(y) == Truthy(y[1]) \/ Truthy(y[2])

\* What each tier yields on the text of the call.
NerYield ==
    IF con.name_in.nlp = "ok" /\ con.name_in.persons # << >>
    THEN split_name(con.name_in.persons[1])
    ELSE NoNameYield

LeadInYield ==
    IF con.name_in.leadin1 # << >> THEN split_name(con.name_in.leadin1)
    ELSE IF con.name_in.leadin2 # << >> THEN split_name(con.name_in.leadin2)
    ELSE NoNameYield

LeadingYield ==
    IF con.name_in.leading # << >> THEN split_name(con.name_in.leading)
    ELSE NoNameYield

\* C24: the tiers are consulted in the order NER, lead-in phrases, leading
\* name; the result is the one of the first tier that yields a name, a tier
\* is consulted only if every earlier tier yielded nothing, and both names
\* are absent if no tier yields anything.
C24_NameTiers ==
    con.pc = "done" =>
        /\ <<con.first, con.last>> =
              IF YieldsName(NerYield) THEN NerYield
              ELSE IF YieldsName(LeadInYield) THEN LeadInYield
              ELSE IF YieldsName(LeadingYield) THEN LeadingYield
              ELSE NoNameYield
        /\ "patterns" \in con.consulted <=> ~YieldsName(NerYield)
        /\ "leading" \in con.consulted
              <=> (~YieldsName(NerYield) /\ ~YieldsName(LeadInYield))
        /\ (con.name_in.nlp \in {"absent", "raises"}) => ~YieldsName(NerYield)

\* The NER found a span that splits to nothing, the lead-in phrase and the
\* leading name both match: the result is the one of the lead-in phrase and
\* the leading-name tier is not consulted.
C24_Witness ==
    /\ con.pc = "done"
    /\ con.name_in.nlp = "ok"
    /\ con.name_in.persons # << >>
    /\ ~YieldsName(NerYield)
    /\ YieldsName(LeadInYield)
    /\ YieldsName(LeadingYield)
    /\ LeadInYield # LeadingYield
    /\ <<con.first, con.last>> = LeadInYield
    /\ con.consulted = {"ner", "patterns"}

(***************************************************************************)
(* The lead-in tier of the name extraction (SpecNamePatterns).             *)
(***************************************************************************)
\* The word begins with an uppercase letter.
Capitalized(w) == w \in {"I'm", "Jamie"}

\* The text has a lead-in phrase, and only lower-case words follow the first
\* one.
LeadInThenLowercase(text) ==
    \E i \in 1..Len(text) :
        /\ LeadIn1(text[i]) \/ LeadIn2(text[i])
        /\ \A j \in 1..Len(text) : j < i => ~(LeadIn1(text[j]) \/ LeadIn2(text[j]))
        /\ i < Len(text)
        /\ \A j \in 1..Len(text) : j > i => ~Capitalized(text[j])

\* C25: a lead-in phrase followed only by lower-case words yields no name
\* from the lead-in tier.
C25_LowercaseYieldsNoName ==
    (con.pc = "matched" /\ LeadInThenLowercase(con.text))
        => (con.first = NoneVal /\ con.last = NoneVal)

(***************************************************************************)
(* The zip extraction (SpecContact).                                       *)
(***************************************************************************)
\* The match of the first shape that matches, in the order US, Canadian, UK.
InShapeOrder(m) ==
    CASE m.us # NoneVal -> m.us
      [] m.us = NoneVal /\ m.ca # NoneVal -> m.ca
      [] m.us = NoneVal /\ m.ca = NoneVal -> m.uk

UpperCased == {"94105", "10001", "K1A 0B1", "SW1A 1AA"}

\* C26: with a cue and a postal-code shape in the window after it, the zip is
\* the match in the window (US before Canadian before UK), whatever else
\* matches in the text; otherwise it is the match in the whole text in the
\* same order, or absent; the zip is upper-cased.
C26_ZipCueFirst ==
    con.pc = "done" =>
        LET z == con.zip_in
        IN  /\ (z.cued /\ z.window # NoZipMatch)
                  => con.zip = UpperStr(InShapeOrder(z.window))
            /\ (~(z.cued /\ z.window # NoZipMatch) /\ z.whole # NoZipMatch)
                  => con.zip = UpperStr(InShapeOrder(z.whole))
            /\ (~(z.cued /\ z.window # NoZipMatch) /\ z.whole = NoZipMatch)
                  => con.zip = NoneVal
            /\ con.zip # NoneVal => con.zip \in UpperCased

\* A cue with a Canadian code in its window, and a US code elsewhere in the
\* text: the zip is the upper-cased Canadian code of the window.
C26_Witness ==
    /\ con.pc = "done"
    /\ con.zip_in.cued
    /\ con.zip_in.window = [us |-> NoneVal, ca |-> "k1a 0b1", uk |-> NoneVal]
    /\ con.zip_in.whole.us = "10001"
    /\ con.zip = "K1A 0B1"

(***************************************************************************)
(* The priority of the sentiment (SpecEnrich).                             *)
(***************************************************************************)
\* The three keyword counts of each text.
SentimentCounts ==
    [text \in EnrTexts |->
        [neg |-> CountKeywords(negative_words, LowerText(text)),
         pos |-> CountKeywords(positive_words, LowerText(text)),
         urg |-> CountKeywords(urgent_words, LowerText(text))]] @@ << >>

NegCount == SentimentCounts[enr.text].neg

PosCount == SentimentCounts[enr.text].pos

UrgCount == SentimentCounts[enr.text].urg

\* The fraction i equals min(count / d, 1).
IsMinOfRatio(i, count, d) ==
    IF count >= d THEN i.num = i.den /\ i.den > 0
    ELSE i.num * d = count * i.den /\ i.den > 0

\* C27: the mood is negative (intensity min(neg/3, 1)) iff neg > pos and
\* neg > 0; otherwise positive (min(pos/3, 1)) iff pos > 0; otherwise
\* stressed (min(urg/2, 1)) iff urg > 0; otherwise neutral with 0.5.
C27_SentimentPriority ==
    enr.pc \in {"recommending", "done"} /\ "sentiment_analysis" \in DOMAIN enr.creative =>
        LET s == enr.creative["sentiment_analysis"].val
            negative == NegCount > PosCount /\ NegCount > 0
            positive == ~negative /\ PosCount > 0
            stressed == ~negative /\ ~positive /\ UrgCount > 0
        IN  /\ s.mood = "negative" <=> negative
            /\ s.mood = "positive" <=> positive
            /\ s.mood = "stressed" <=> stressed
            /\ s.mood = "neutral" <=> (~negative /\ ~positive /\ ~stressed)
            /\ negative => IsMinOfRatio(s.intensity, NegCount, 3)
            /\ positive => IsMinOfRatio(s.intensity, PosCount, 3)
            /\ stressed => IsMinOfRatio(s.intensity, UrgCount, 2)
            /\ s.mood = "neutral" => IsMinOfRatio(s.intensity, 1, 2)

\* A tie of one negative and one positive word is positive with 1/3.
C27_Witness ==
    /\ enr.pc = "recommending"
    /\ NegCount = 1
    /\ PosCount = 1
    /\ enr.creative["sentiment_analysis"].val =
          [mood |-> "positive", intensity |-> [num |-> 1, den |-> 3]]

\* Four negative words against one positive: negative, with the cap 1.
C27_WitnessCap ==
    /\ enr.pc = "recommending"
    /\ NegCount = 4
    /\ PosCount = 1
    /\ enr.creative["sentiment_analysis"].val.mood = "negative"
    /\ IsMinOfRatio(enr.creative["sentiment_analysis"].val.intensity, 3, 3)

(***************************************************************************)
(* The confidence of the result (SpecClassify).                            *)
(***************************************************************************)
\* The confidence, in hundredths, lies in [0, 1].
WithinZeroOne(c) == 0 <= c /\ c <= 100

\* C28: for every external vote, also one with a confidence outside [0, 1],
\* classify_message returns a result with a confidence in [0, 1]; a merged
\* result with a confidence outside [0, 1] is not returned: the result is
\* the rule-only fallback.
C28_ConfidenceInRange ==
    cls.pc = "done" =>
        /\ ~cls.result.raised
        /\ WithinZeroOne(cls.result.confidence)
        /\ (cls.llm.kind = "ok" /\ ~WithinZeroOne(cls.merged.confidence)) =>
              /\ cls.result.category = cls.rule.category
              /\ cls.result.confidence = cls.rule.confidence
              /\ cls.result.reasoning = FallbackReasoning

\* The external vote is HIGH_RISK with confidence 1.5 on a text that the
\* rule engine votes BASE: the merged vote (HIGH_RISK, 1.5) is replaced by
\* the rule vote (BASE, 0.7).
C28_Witness ==
    /\ cls.pc = "done"
    /\ cls.llm.kind = "ok"
    /\ cls.llm.category = HIGH_RISK
    /\ cls.llm.confidence = 150
    /\ cls.merged.category = HIGH_RISK
    /\ cls.merged.confidence = 150
    /\ cls.result.category = BASE
    /\ cls.result.confidence = 70
    /\ cls.result.reasoning = FallbackReasoning

(***************************************************************************)
(* The failure reported by the pipeline (SpecPipeline).                    *)
(***************************************************************************)
\* The parts of the content of a failure.
PartsOf(detail) == {detail[i] : i \in 1..Len(detail)}

\* C29: an unexpected exception of the pipeline is reported as a failure that
\* is tagged with the message identifier and whose content is not the text
\* of the exception alone.
C29_GenericFailure ==
    (req.pc = "done" /\ req.status = 500) =>
        /\ req.message_id \in PartsOf(req.detail)
        /\ req.detail # <<req.exc>>

(***************************************************************************)
(* The failure of the recommendation service (SpecEnrich).                 *)
(***************************************************************************)
\* The enrichments of the request other than the recommendation, from the
\* text and the numbers resolved for its cities.
TextEnrichments ==
    [text \in EnrTexts |->
        [sentiment |-> analyze_sentiment(text),
         phase |-> detect_travel_phase(text),
         disruption |-> detect_travel_disruption(text)]] @@ << >>

OtherEnrichments ==
    LET phase == TextEnrichments[enr.text].phase
        disruption == TextEnrichments[enr.text].disruption
    IN  [k \in {"sentiment_analysis"}
              \cup (IF enr.numbers # {} THEN {"local_emergency_numbers"} ELSE {})
              \cup (IF phase # NoneVal THEN {"travel_phase"} ELSE {})
              \cup (IF disruption # NoneVal THEN {"disruption_type"} ELSE {}) |->
            CASE k = "sentiment_analysis" -> JVal(TextEnrichments[enr.text].sentiment)
              [] k = "local_emergency_numbers" -> JVal(sorted(enr.numbers))
              [] k = "travel_phase" -> JVal(phase)
              [] k = "disruption_type" -> JVal(disruption)]

\* The bag without the recommendation.
WithoutRecommendation(bag) ==
    [k \in DOMAIN bag \ {"support_recommendations"} |-> bag[k]]

\* C30: when the recommendation call fails (exception, timeout, non-JSON
\* output), the bag is returned without the key support_recommendations, and
\* the other enrichments are the same whether the call fails or not.
C30_RecommendationFailure ==
    (enr.pc = "done" /\ enr.rec # "none") =>
        /\ enr.ret = "bag"
        /\ WithoutRecommendation(enr.bag) = OtherEnrichments
        /\ enr.rec \in RecFailureKinds => "support_recommendations" \notin DOMAIN enr.bag
        /\ enr.rec = "ok" => "support_recommendations" \in DOMAIN enr.bag

\* The call times out for a request with a resolved number, a travel phase
\* and a disruption type: the bag has these and the sentiment, and no
\* recommendation.
C30_Witness ==
    /\ enr.pc = "done"
    /\ enr.rec = "timeout"
    /\ enr.ret = "bag"
    /\ DOMAIN enr.bag = {"local_emergency_numbers", "sentiment_analysis",
                         "travel_phase", "disruption_type"}

====
